---- MODULE Spec2Model ----
(***************************************************************************)
(* bhwinfo: the CPU sample engine (cpu::DataCollector) and the memory and  *)
(* mount engine (mem::DataCollector).                                      *)
(*                                                                         *)
(* The repository ships the engines twice: as a compiled library           *)
(* (include/*.hpp with src/cpu.cpp and src/mem.cpp) and as the single      *)
(* header src/libhwinfo.hpp.  The CPU engine is the same code in both; the *)
(* memory engine differs, and the variable `build` says which one runs.    *)
(***************************************************************************)
EXTENDS Integers, Sequences, FiniteSets, TLC

VARIABLES
    core_count,        \* cpu::DataCollector::core_count
    CpuOld,            \* previous aggregate counters ("totals", "idles", the 10 fields)
    core_old_totals,   \* previous per-core totals
    core_old_idles,    \* previous per-core idles
    current_cpu,       \* CpuInfo: cpu_percent, core_percent, critical_temperature, load_avg
    cpu_sensor,        \* name of the primary sensor, "" when none
    found_sensors,     \* name -> Sensor
    core_sensors,      \* names of the per-core sensors, as get_sensors() leaves them
    core_mapping,      \* core index -> index into core_sensors
    got_sensors,       \* result of get_sensors() in the constructor
    failed,            \* static int failed of get_cpu_frequency()
    freq_path,         \* shared::freq_path, "" when cleared
    cpu_tick,          \* the inputs and locals of the last cpu collect() call
    cpu_ret,           \* what the last cpu collect() call gave its caller
    build,             \* "library" (src/cpu.cpp, src/mem.cpp), "header"
                       \* (src/libhwinfo.hpp) or "collect" (src/collect.hpp)
    total_ram_amount,  \* StaticValuesAware::total_ram_amount, in bytes
    current_mem,       \* MemInfo: stats, percent, disks, disks_order
    has_swap,          \* mem::DataCollector::has_swap
    last_found,        \* mountpoints found by the last tick that read the table
    old_uptime,        \* uptime at the last completed tick, in seconds
    ignore_list,       \* static vector<string> ignore_list of collect()
    mem_tick,          \* the inputs and locals of the last memory collect() call
    mem_ret,           \* what the last memory collect() call gave its caller
    is_init,           \* shared::is_init
    proc_path,         \* shared::proc_path, "" when /proc was not found
    cpu_made,          \* the caller holds a cpu::DataCollector
    mem_made,          \* the caller holds a mem::DataCollector
    ctor_ret,          \* the last constructor call: whether /proc was readable, and
                       \* what the caller got
    cpu_call,          \* what the cpu collect() call in progress reads, <<>> when none
    mem_call,          \* what the memory collect() call in progress reads, <<>> when none
    parsed,            \* a counter line of /proc/stat in full width, with its totals
                       \* and idles
    scan               \* what get_sensors() found under /sys, the order it met it
                       \* in and what it reported; <<>> before it has run

cpu_vars == <<core_count, CpuOld, core_old_totals, core_old_idles, current_cpu,
              cpu_sensor, found_sensors, core_sensors, core_mapping, got_sensors,
              failed, freq_path, cpu_tick, cpu_ret>>

mem_vars == <<build, total_ram_amount, current_mem, has_swap, last_found, old_uptime,
              ignore_list, mem_tick, mem_ret>>

call_vars == <<cpu_call, mem_call>>

proc_vars == <<is_init, proc_path, cpu_made, mem_made, ctor_ret, call_vars, parsed, scan>>

vars == <<cpu_vars, mem_vars, proc_vars>>

----------------------------------------------------------------------------
(* Bounds of the exploration *)

\* cores the machine may have at construction: 1..MaxCores
MaxCores == 1

\* the uptime, in seconds, at which the exploration stops the clock
MaxUptime == 2

----------------------------------------------------------------------------
(* Arithmetic helpers *)

max(a, b) == IF a >= b THEN a ELSE b

min(a, b) == IF a <= b THEN a ELSE b

\* a clamp that lets every value through
clamp_none(v, lo, hi) == v

clamp(v, lo, hi) == IF v < lo THEN lo ELSE IF v > hi THEN hi ELSE v

\* INT_MAX of the 32-bit int that std::accumulate(..., 0) accumulates in
IntMax == 2147483647

IntMin == -IntMax - 1

\* std::round((double) n / d) for d > 0: nearest integer, halves away from zero
round_div(n, d) ==
    IF n >= 0 THEN (2 * n + d) \div (2 * d)
              ELSE -((2 * (-n) + d) \div (2 * d))

\* values a build can give for (long long) of a non-finite double: the
\* conversion is undefined; x86-64 gives LLONG_MIN, RISC-V gives LLONG_MAX
\* for NaN.  The clamp that follows only tells "at or below 0", "in range"
\* and "above 100" apart, so the two ends of the range stand for all.
CastOutcomes == {IntMin, IntMax}

\* (long long) round((double) n * 100 / d): d = 0 divides a double by zero
percent_of(n, d, ub) == IF d = 0 THEN ub ELSE round_div(n * 100, d)

----------------------------------------------------------------------------
(* /proc/stat as collect() reads it *)

time_names == <<"user", "nice", "system", "idle", "iowait",
                "irq", "softirq", "steal", "guest", "guest_nice">>

field_index(name) == CHOOSE k \in 1..Len(time_names) : time_names[k] = name

RECURSIVE sum_from(_, _)
\* total_sum: the long long sum of the fields times[k..]
sum_from(times, k) ==
    IF k > Len(times) THEN 0 ELSE times[k] + sum_from(times, k + 1)

\* init = init + *it of std::accumulate with an int init: the long long sum
\* is converted back to int, i.e. taken modulo 2^32
int_add(acc, v) ==
    IF acc > 0 /\ v > IntMax - acc
        THEN (acc - IntMax - 1) + (v - IntMax - 1)
        ELSE acc + v

RECURSIVE accumulate(_, _, _)
\* std::accumulate(times.begin() + 8, times.end(), 0); k is 1-based
accumulate(times, k, init) ==
    IF k > Len(times) THEN init
    ELSE accumulate(times, k + 1, int_add(init, times[k]))

\* const long long totals
totals_of(times) ==
    max(0, sum_from(times, 1)
           - (IF Len(times) > 8 THEN accumulate(times, 9, 0) ELSE 0))

\* const long long idles
idles_of(times) ==
    max(0, times[4] + (IF Len(times) > 4 THEN times[5] ELSE 0))

\* the branch i == 0: the aggregate line.  old is CpuOld, pct is
\* current_cpu.cpu_percent; gives both as the branch leaves them, with its locals.
aggregate_line(times, old, pct) ==
    LET totals      == totals_of(times)
        idles       == idles_of(times)
        calc_totals == max(1, totals - old["totals"])
        calc_idles  == max(1, idles - old["idles"])
        upto        == min(Len(times), 10)
    IN  [ CpuOld |->
            [n \in DOMAIN old |->
                IF n = "totals" THEN totals
                ELSE IF n = "idles" THEN idles
                ELSE IF field_index(n) <= upto THEN times[field_index(n)]
                ELSE old[n]],
          cpu_percent |->
            [n \in DOMAIN pct |->
                IF n = "total"
                    THEN clamp(percent_of(calc_totals - calc_idles, calc_totals, 0), 0, 100)
                ELSE IF field_index(n) <= upto
                    THEN clamp(percent_of(times[field_index(n)] - old[n], calc_totals, 0), 0, 100)
                ELSE pct[n]],
          d_totals    |-> totals - old["totals"],
          d_idles     |-> idles - old["idles"],
          calc_totals |-> calc_totals,
          calc_idles  |-> calc_idles ]

\* divisor of the per-core percentage: const long long calc_totals
core_calc_totals_of(totals, old_totals) == max(0, totals - old_totals)

\* a core branch that leaves the stored previous total of the core as it was
core_line_totals_kept(times, st, ub) ==
    LET i           == st.i
        totals      == totals_of(times)
        idles       == idles_of(times)
        calc_totals == core_calc_totals_of(totals, st.core_old_totals[i])
        calc_idles  == max(0, idles - st.core_old_idles[i])
    IN  [st EXCEPT !.core_old_idles[i]  = idles,
                   !.core_percent[i]    =
                        clamp(percent_of(calc_totals - calc_idles, calc_totals, ub), 0, 100),
                   !.calc_totals[i]     = calc_totals]

\* the else branch of i == 0: the line of core i-1 (st.i is the 1-based slot).
\* st carries the loop's view of the engine; ub is what the build gives for a
\* non-finite percentage.
core_line(times, st, ub) ==
    LET i           == st.i
        totals      == totals_of(times)
        idles       == idles_of(times)
        calc_totals == core_calc_totals_of(totals, st.core_old_totals[i])
        calc_idles  == max(0, idles - st.core_old_idles[i])
    IN  [st EXCEPT !.core_old_totals[i] = totals,
                   !.core_old_idles[i]  = idles,
                   !.core_percent[i]    =
                        clamp(percent_of(calc_totals - calc_idles, calc_totals, ub), 0, 100),
                   !.calc_totals[i]     = calc_totals]

RECURSIVE fill_zeros_keep(_, _)
\* a loop that steps over a skipped core and leaves its percentage as it was
fill_zeros_keep(st, cpuNum) ==
    IF st.i - 1 < cpuNum
        THEN IF st.i > Len(st.core_percent)
                THEN [st EXCEPT !.err = "out_of_range"]
                ELSE fill_zeros_keep([st EXCEPT !.i = st.i + 1], cpuNum)
        ELSE st

RECURSIVE fill_zeros(_, _)
\* while (i - 1 < cpuNum) { cpu.core_percent.at(i-1) = 0; i++; }
fill_zeros(st, cpuNum) ==
    IF st.i - 1 < cpuNum
        THEN IF st.i > Len(st.core_percent)
                THEN [st EXCEPT !.err = "out_of_range"]
                ELSE fill_zeros([st EXCEPT !.core_percent[st.i] = 0, !.i = st.i + 1], cpuNum)
        ELSE st

RECURSIVE stat_loop(_, _, _)
\* the for loop from i = 1 on; rest is the core lines still in the stream
stat_loop(st, rest, ub) ==
    IF st.err /= "" THEN st
    ELSE IF rest = <<>>
        THEN IF st.i <= st.target
                THEN IF st.i > Len(st.core_percent)
                        THEN [st EXCEPT !.err = "out_of_range"]
                        ELSE stat_loop([st EXCEPT !.core_percent[st.i] = 0,
                                                  !.i = st.i + 1], rest, ub)
                ELSE st
        ELSE LET cpuNum == Head(rest).num
                 times  == Head(rest).times
                 \* after "stream >> cpu_name" the next character is the blank
                 \* before the first field, so peek() == 'c' is false: + 1
                 st1    == IF cpuNum >= st.target - 1
                              THEN [st EXCEPT !.target = cpuNum + 1] ELSE st
                 st2    == fill_zeros(st1, cpuNum)
             IN  IF st2.err /= "" THEN st2
                 ELSE IF Len(times) < 4
                     THEN [st2 EXCEPT !.err = "Malformatted /proc/stat"]
                 ELSE IF st2.i > Len(st2.core_old_totals)
                     THEN [st2 EXCEPT !.err = "out_of_range"]
                 ELSE LET st3 == core_line(times, st2, ub)
                      IN  stat_loop([st3 EXCEPT !.i = st3.i + 1], Tail(rest), ub)

NoLine == [present |-> FALSE, times |-> <<>>]

Line(times) == [present |-> TRUE, times |-> times]

RECURSIVE core_lines(_, _)
\* the core lines of a table in file order, from slot n on
core_lines(cores, n) ==
    IF n \notin DOMAIN cores THEN <<>>
    ELSE (IF cores[n].present THEN <<[num |-> n, times |-> cores[n].times]>> ELSE <<>>)
         \o core_lines(cores, n + 1)

\* the try block of collect() from "stream.open(stat)" on
read_stat(stat, ub) ==
    LET st0 == [ i |-> 1, target |-> core_count,
                 core_percent    |-> current_cpu.core_percent,
                 core_old_totals |-> core_old_totals,
                 core_old_idles  |-> core_old_idles,
                 calc_totals     |-> [k \in 1..Len(core_old_totals) |-> -1],
                 err |-> "" ]
        none == [ CpuOld |-> CpuOld, cpu_percent |-> current_cpu.cpu_percent,
                  d_totals |-> 0, d_idles |-> 0, calc_totals |-> -1, calc_idles |-> -1 ]
    IN  IF ~stat.agg.present
            THEN [agg |-> none, st |-> [st0 EXCEPT !.err = "Failed to parse /proc/stat"]]
        ELSE IF Len(stat.agg.times) < 4
            THEN [agg |-> none, st |-> [st0 EXCEPT !.err = "Malformatted /proc/stat"]]
        ELSE [agg |-> aggregate_line(stat.agg.times, CpuOld, current_cpu.cpu_percent),
              st  |-> stat_loop(st0, core_lines(stat.cores, 0), ub)]

----------------------------------------------------------------------------
(* Files read through ut::file::read, stol and stod *)

\* what a small file holds: nothing readable, a number, or other text
NoFile == [kind |-> "none", val |-> 0]

Num(v) == [kind |-> "num", val |-> v]

Text == [kind |-> "text", val |-> 0]

\* ut::file::read(path, fallback): the fallback stands in for a file that is
\* missing, cannot be opened or is empty
file_read(content, fallback) == IF content.kind = "none" THEN fallback ELSE content

\* a / b of C++ on integers: truncation towards zero
trunc_div(a, b) == IF a >= 0 THEN a \div b ELSE -((-a) \div b)

\* update_sensors(): sens is what the primary sensor's file holds.  stol
\* throws std::invalid_argument on text.
update_sensors(sens) ==
    IF cpu_sensor = "" THEN [err |-> "", found_sensors |-> found_sensors,
                             critical_temperature |-> current_cpu.critical_temperature]
    ELSE LET content == file_read(sens, Num(0))
         IN  IF content.kind = "text"
                THEN [err |-> "invalid_argument", found_sensors |-> found_sensors,
                      critical_temperature |-> current_cpu.critical_temperature]
                ELSE [err |-> "",
                      found_sensors |->
                        [found_sensors EXCEPT ![cpu_sensor].temp = trunc_div(content.val, 1000)],
                      critical_temperature |-> found_sensors[cpu_sensor].crit]

\* "/sys/devices/system/cpu/cpufreq/policy0/scaling_cur_freq"
ScalingCurFreq == "scaling_cur_freq"

NoFrequency == [value10 |-> 0, units |-> ""]

\* get_cpu_frequency(): fast is what shared::freq_path holds (kHz), slow the
\* "cpu MHz" entry of /proc/cpuinfo.  hz is kept in kHz (hz * 1000) and the
\* returned value in tenths (value * 10) so that both stay integers.
\* a fast path that is tried whether or not a path is set
fast_enabled_always == TRUE

\* not shared::freq_path.empty()
fast_enabled == freq_path /= ""

get_cpu_frequency(fast, slow) ==
    IF failed > 4 THEN [failed |-> failed, freq_path |-> freq_path, freq |-> NoFrequency]
    ELSE
    LET use_fast == fast_enabled
        content  == file_read(fast, Num(0))
        threw    == use_fast /\ content.kind = "text"        \* stod throws
        hz1      == IF use_fast /\ ~threw THEN content.val ELSE 0
        failed1  == IF use_fast /\ ~threw /\ hz1 <= 0 THEN failed + 1 ELSE failed
        path1    == IF use_fast /\ ~threw /\ hz1 <= 0 /\ failed1 >= 2 THEN "" ELSE freq_path
        hz       == IF hz1 <= 0
                        THEN (IF slow.kind = "num" THEN slow.val ELSE hz1)
                        ELSE hz1
    IN  IF threw
            THEN [failed |-> failed + 1, freq_path |-> freq_path, freq |-> NoFrequency]
        ELSE IF hz <= 1000 \/ hz >= 1000000000
            THEN [failed |-> failed1 + 1, freq_path |-> path1, freq |-> NoFrequency]
        ELSE IF hz >= 10000000
            THEN [failed |-> failed1, freq_path |-> path1,
                  freq |-> [value10 |-> 10 * round_div(hz, 1000000), units |-> "GHz"]]
        ELSE IF hz >= 1000000
            THEN [failed |-> failed1, freq_path |-> path1,
                  freq |-> [value10 |-> round_div(hz, 100000), units |-> "GHz"]]
        ELSE [failed |-> failed1, freq_path |-> path1,
              freq |-> [value10 |-> 10 * round_div(hz, 1000), units |-> "MHz"]]

----------------------------------------------------------------------------
(* Inputs of a cpu tick *)

\* aggregate lines: the two samples of the usage scenario (user 100 -> 200,
\* idle 850); read in either order they give a grown, an unchanged and a
\* lower total
AggTimes == { <<100, 0, 50, 850, 0, 0, 0, 0, 0, 0>>,
              <<200, 0, 50, 850, 0, 0, 0, 0, 0, 0>> }

\* core lines, likewise
CoreTimes == { <<10, 0, 0, 50>>, <<30, 0, 0, 50>> }

\* a line with fewer than 4 numeric fields
ShortTimes == <<7, 7, 7>>

AggChoices == {NoLine, Line(ShortTimes)} \cup {Line(t) : t \in AggTimes}

CoreChoices == {NoLine, Line(ShortTimes)} \cup {Line(t) : t \in CoreTimes}

\* "cpuN" lines for N in 0..n: the last slot is a core that an engine built
\* for n cores did not know at construction
CoreTables(n) ==
    { f \in [0..n -> CoreChoices] : f[n] \in {NoLine, Line(<<10, 0, 0, 50>>)} }

NoCores(n) == [k \in 0..n |-> NoLine]

\* the tables of a tick; no core line is read after a missing or short
\* aggregate line, so those tables come without core lines
StatTables(n) ==
    { [agg |-> a, cores |-> NoCores(n)] : a \in {NoLine, Line(ShortTimes)} }
    \cup { [agg |-> Line(t), cores |-> c] : t \in AggTimes, c \in CoreTables(n) }

NoLoad == [present |-> FALSE, vals |-> <<0, 0, 0>>]

\* /proc/loadavg, in hundredths
LoadReads == {NoLoad, [present |-> TRUE, vals |-> <<52, 58, 59>>]}

\* the primary sensor's file, in millidegrees
SensorReads == {NoFile, Num(45000), Text}

\* scaling_cur_freq, in kHz
FastReads == {NoFile, Num(1500000)}

\* "cpu MHz" of /proc/cpuinfo, in kHz
SlowReads == {NoFile, Num(2400000)}

NoStat == [agg |-> NoLine, cores |-> <<>>]

NoTick == [ stat |-> NoStat, load |-> NoLoad, sens |-> NoFile,
            fast |-> NoFile, slow |-> NoFile,
            d_totals |-> 0, d_idles |-> 0, calc_totals |-> -1, calc_idles |-> -1,
            core_calc_totals |-> <<>> ]

NoData == [ cpu_usage |-> [n \in {"total"} |-> 0], cpu_temp |-> 0,
            cpu_load_avg |-> <<0, 0, 0>>, core_load |-> <<>>,
            cpu_frequency |-> NoFrequency, core_count |-> 0,
            critical_temperature |-> 0 ]

----------------------------------------------------------------------------
(* cpu::DataCollector *)

PercentNames == {"total"} \cup {time_names[k] : k \in 1..Len(time_names)}

OldNames == {"totals", "idles"} \cup {time_names[k] : k \in 1..Len(time_names)}

NoSensors == [found |-> <<>>, primary |-> "", cores |-> <<>>]

PackageSensor ==
    [found |-> [n \in {"coretemp/Package id 0"} |-> [temp |-> 40, high |-> 80, crit |-> 100]],
     primary |-> "coretemp/Package id 0", cores |-> <<>>]

\* a coretemp chip with its package sensor and one per-core sensor
CoretempSensors ==
    [found |-> [n \in {"coretemp/Package id 0", "coretemp/Core 0"} |->
                   [temp |-> 40, high |-> 80, crit |-> 100]],
     primary |-> "coretemp/Package id 0", cores |-> <<"coretemp/Core 0">>]

\* what get_sensors() can leave behind: nothing, or sensors with a primary one
SensorSetups == {NoSensors, PackageSensor}

\* a constructor that inserts one element too many
core_vector_extra(n) == [k \in 1..(n + 1) |-> 0]

\* the vectors the constructor fills for core_count cores
core_vector(n) == [k \in 1..n |-> 0]

\* DataCollector::DataCollector() on a machine whose sensors are one of
\* setups and whose frequency path is one of paths ("" when it was cleared)
CpuInit(cores, setups, paths) ==
    /\ core_count \in cores
    /\ CpuOld = [n \in OldNames |-> 0]
    /\ core_old_totals = core_vector(core_count)
    /\ core_old_idles = core_vector(core_count)
    /\ \E s \in setups :
          /\ found_sensors = s.found
          /\ cpu_sensor = s.primary
          /\ core_sensors = s.cores
          /\ got_sensors = (s.found /= <<>>)
    /\ current_cpu = [ cpu_percent |-> [n \in PercentNames |-> 0],
                       core_percent |-> core_vector(core_count),
                       critical_temperature |-> 0,
                       load_avg |-> <<0, 0, 0>> ]
    /\ core_mapping = <<>>
    /\ failed = 0
    /\ freq_path \in paths
    /\ cpu_tick = NoTick
    /\ cpu_ret = [status |-> "none", what |-> "", data |-> NoData]

\* the statements of collect() after the try block: update_sensors() and the
\* returned Data, whose members are evaluated in order
collect_return(cpu, sens, fast, slow) ==
    LET upd == IF got_sensors THEN update_sensors(sens)
               ELSE [err |-> "", found_sensors |-> found_sensors,
                     critical_temperature |-> cpu.critical_temperature]
        f   == get_cpu_frequency(fast, slow)
        cur == [cpu EXCEPT !.critical_temperature = upd.critical_temperature]
        ok  == [found_sensors |-> upd.found_sensors, failed |-> failed,
                freq_path |-> freq_path, current_cpu |-> cur]
    IN  IF upd.err /= ""
            \* stol in update_sensors()
            THEN [ok EXCEPT !.current_cpu = cpu] @@
                 [ret |-> [status |-> "error", what |-> upd.err, data |-> NoData]]
        ELSE IF cpu_sensor \notin DOMAIN upd.found_sensors
            \* found_sensors.at(cpu_sensor)
            THEN ok @@ [ret |-> [status |-> "error", what |-> "out_of_range", data |-> NoData]]
        ELSE [ok EXCEPT !.failed = f.failed, !.freq_path = f.freq_path] @@
             [ret |-> [ status |-> "ok", what |-> "",
                        data |-> [ cpu_usage |-> cur.cpu_percent,
                                   cpu_temp |-> upd.found_sensors[cpu_sensor].temp,
                                   cpu_load_avg |-> cur.load_avg,
                                   core_load |-> cur.core_percent,
                                   cpu_frequency |-> f.freq,
                                   core_count |-> core_count,
                                   critical_temperature |-> cur.critical_temperature ] ]]

\* DataCollector::collect(): every variable the call leaves behind
collect_result(stat, ub, load, sens, fast, slow) ==
    LET r   == read_stat(stat, ub)
        cpu == [ cpu_percent |-> r.agg.cpu_percent,
                 core_percent |-> r.st.core_percent,
                 critical_temperature |-> current_cpu.critical_temperature,
                 load_avg |-> IF load.present THEN load.vals ELSE current_cpu.load_avg ]
        end == IF r.st.err /= ""
                  \* catch (const std::exception& e): rethrown to the caller
                  THEN [ found_sensors |-> found_sensors, failed |-> failed,
                         freq_path |-> freq_path, current_cpu |-> cpu,
                         ret |-> [status |-> "error",
                                  what |-> "collect() : " \o r.st.err, data |-> NoData] ]
                  ELSE collect_return(cpu, sens, fast, slow)
    IN  end @@
        [ CpuOld |-> r.agg.CpuOld,
          core_old_totals |-> r.st.core_old_totals,
          core_old_idles |-> r.st.core_old_idles,
          tick |-> [ stat |-> stat, load |-> load, sens |-> sens,
                     fast |-> fast, slow |-> slow,
                     d_totals |-> r.agg.d_totals, d_idles |-> r.agg.d_idles,
                     calc_totals |-> r.agg.calc_totals, calc_idles |-> r.agg.calc_idles,
                     core_calc_totals |-> r.st.calc_totals ] ]

collect(stat, ub, load, sens, fast, slow) ==
    \E o \in {collect_result(stat, ub, load, sens, fast, slow)} :
        /\ CpuOld' = o.CpuOld
        /\ core_old_totals' = o.core_old_totals
        /\ core_old_idles' = o.core_old_idles
        /\ current_cpu' = o.current_cpu
        /\ found_sensors' = o.found_sensors
        /\ failed' = o.failed
        /\ freq_path' = o.freq_path
        /\ cpu_tick' = o.tick
        /\ cpu_ret' = o.ret
        /\ UNCHANGED <<core_count, cpu_sensor, core_sensors, core_mapping, got_sensors>>

\* ticks whose stat table varies; the other sources read the same every tick
CpuCollect ==
    /\ \E stat \in StatTables(core_count), ub \in CastOutcomes :
          collect(stat, ub, [present |-> TRUE, vals |-> <<52, 58, 59>>],
                  Num(45000), Num(1500000), Num(2400000))
    /\ UNCHANGED <<mem_vars, proc_vars>>

\* well-formed tables for the cores the engine knows: the two aggregate
\* lines, each with its core line for every known core
GoodTables(n) ==
    { [agg |-> Line(p[1]),
       cores |-> [k \in 0..n |-> IF k < n THEN Line(p[2]) ELSE NoLine]] :
        p \in { <<<<100, 0, 50, 850, 0, 0, 0, 0, 0, 0>>, <<10, 0, 0, 50>>>>,
                <<<<200, 0, 50, 850, 0, 0, 0, 0, 0, 0>>, <<30, 0, 0, 50>>>> } }

\* ticks whose optional sources (load averages, sensor file, frequency
\* paths) vary over well-formed stat tables
CpuCollectDegraded ==
    /\ \E stat \in GoodTables(core_count), ub \in CastOutcomes, load \in LoadReads,
          sens \in SensorReads, fast \in FastReads, slow \in SlowReads :
            collect(stat, ub, load, sens, fast, slow)
    /\ UNCHANGED <<mem_vars, proc_vars>>

----------------------------------------------------------------------------
(* Inputs of a memory tick *)

\* the mountpoints of the machine, in mount-table order
Mountpoints == <<"/", "/mnt">>

\* device node of a mountpoint: its file name and the whole disk it is on
DevOf(m) == IF m = "/" THEN [path |-> "/dev/sda1", name |-> "sda1", disk |-> "sda"]
            ELSE [path |-> "/dev/sdb1", name |-> "sdb1", disk |-> "sdb"]

\* /proc/meminfo: values in units of 1000 kB (8000 stands for 8,000,000 kB),
\* which every step of collect() on them - shift, sum, difference,
\* comparison, ratio - commutes with; -1 for a label the file does not have
MemInfoFile(total, free, avail, cached, swap_total, swap_free) ==
    [ present |-> TRUE, MemTotal |-> total, MemFree |-> free, MemAvailable |-> avail,
      Cached |-> cached, SwapTotal |-> swap_total, SwapFree |-> swap_free ]

NoMemInfo == [ present |-> FALSE, MemTotal |-> 0, MemFree |-> 0, MemAvailable |-> -1,
               Cached |-> 0, SwapTotal |-> 0, SwapFree |-> 0 ]

MemInfoNoSwap == MemInfoFile(8000, 2000, 3000, 1000, 0, 0)

MemInfoSwap == MemInfoFile(8000, 2000, 3000, 1000, 400, 100)

\* /proc/filesystems: the listed types with their nodev mark
FilesystemsFile ==
    [ present |-> TRUE,
      lines |-> << [nodev |-> TRUE, fstype |-> "tmpfs"], [nodev |-> FALSE, fstype |-> "ext4"],
                   [nodev |-> FALSE, fstype |-> "squashfs"] >> ]

NoFilesystems == [ present |-> FALSE, lines |-> <<>> ]

\* a mount-table line
MountLine(m, fstype) == [dev |-> DevOf(m).path, mountpoint |-> m, fstype |-> fstype]

NoMounts == [ present |-> FALSE, lines |-> <<>> ]

\* the mount table with the mountpoints of set ms mounted as ext4
MountTable(ms) ==
    [ present |-> TRUE,
      lines |-> SelectSeq([k \in 1..Len(Mountpoints) |-> MountLine(Mountpoints[k], "ext4")],
                          LAMBDA l : l.mountpoint \in ms) ]

\* statvfs64 on a mountpoint: the mountpoint may be gone, the call may fail
NoEntry == [ exists |-> FALSE, ok |-> FALSE, f_blocks |-> 0, f_bavail |-> 0, f_frsize |-> 0 ]

ProbeFails == [ exists |-> TRUE, ok |-> FALSE, f_blocks |-> 0, f_bavail |-> 0, f_frsize |-> 0 ]

Vfs(blocks, bavail, frsize) ==
    [ exists |-> TRUE, ok |-> TRUE, f_blocks |-> blocks, f_bavail |-> bavail,
      f_frsize |-> frsize ]

\* a /sys/block stat file: sectors read, sectors written, io ticks
IoFile(r, w, t) == [ sectors_read |-> r, sectors_write |-> w, io_ticks |-> t ]

IoReads == { IoFile(8, 4, 20), IoFile(16, 12, 5000) }

\* the stat files under /sys/block of a machine whose partitions have none
\* of their own
SysBlock == { "/sys/block/sda/stat", "/sys/block/sda/sda1/stat", "/sys/block/sdb/stat" }

\* the iteration order of the unordered_map of records
DiskOrder == <<"/", "/mnt", "swap">>

\* what a memory tick reads
MemEnv(meminfo, uptime, filesystems, mounts, probe, io, order, sys, ub) ==
    [ meminfo |-> meminfo, uptime |-> uptime, filesystems |-> filesystems,
      mounts |-> mounts, probe |-> probe, io |-> io, order |-> order, sys |-> sys,
      ub |-> ub ]

----------------------------------------------------------------------------
(* mem::DataCollector *)

mem_names == <<"used", "available", "cached", "free">>

swap_names == <<"swap_used", "swap_free">>

StatNames == {"used", "available", "cached", "free", "swap_total", "swap_used", "swap_free"}

\* vector<string> fstab of the engine, which nothing fills
fstab == <<>>

contains(vec, find_val) == \E k \in DOMAIN vec : vec[k] = find_val

\* value <<= 10
shl10(v) == v * 1024

\* DataCollector::get_total_ram_amount: the first number of the file, in bytes
get_total_ram_amount(meminfo) ==
    IF ~meminfo.present \/ meminfo.MemTotal = 0
    THEN [ err |-> "Could not get total memory size from /proc/meminfo", totalMem |-> 0 ]
    ELSE [ err |-> "", totalMem |-> shl10(meminfo.MemTotal) ]

\* an available that leaves the cache out
derive_available_free(free, cached) == free

\* mem.stats "available" of a file without MemAvailable
derive_available(free, cached) == free + cached

\* the label loop over /proc/meminfo: a label the file lacks leaves its
\* stat as it was, swap_total having been zeroed before the loop.  The stats
\* are unsigned 64-bit: a difference below zero wraps, and is kept here as the
\* negative number v that stands for 2^64 + v
read_meminfo(stats, meminfo, totalMem) ==
    LET free == IF meminfo.MemFree >= 0 THEN shl10(meminfo.MemFree) ELSE stats["free"]
        cached == IF meminfo.Cached >= 0 THEN shl10(meminfo.Cached) ELSE stats["cached"]
        swap_total == IF meminfo.SwapTotal >= 0 THEN shl10(meminfo.SwapTotal) ELSE 0
        swap_free == IF meminfo.SwapFree >= 0 THEN shl10(meminfo.SwapFree)
                     ELSE stats["swap_free"]
        available == IF meminfo.MemAvailable >= 0 THEN shl10(meminfo.MemAvailable)
                     ELSE derive_available(free, cached)
        used == totalMem - (IF available <= totalMem THEN available ELSE free)
        swap_used == IF swap_total > 0 THEN swap_total - swap_free ELSE stats["swap_used"]
    IN  [ n \in StatNames |->
            CASE n = "used" -> used
              [] n = "available" -> available
              [] n = "cached" -> cached
              [] n = "free" -> free
              [] n = "swap_total" -> swap_total
              [] n = "swap_used" -> swap_used
              [] OTHER -> swap_free ]

\* round((double) v * 100 / total) stored in a long long, for an unsigned
\* 64-bit amount v.  A negative v stands for the wrapped amount 2^64 + v,
\* whose percentage of a total is far above every other number here and is
\* written IntMax.
upercent_of(v, total) == IF v < 0 THEN IntMax ELSE round_div(v * 100, total)

\* mem.percent after the two percentage loops
mem_percent(percent, stats, totalMem) ==
    [ n \in StatNames |->
        IF contains(mem_names, n) THEN upercent_of(stats[n], totalMem)
        ELSE IF contains(swap_names, n) /\ stats["swap_total"] > 0
             THEN upercent_of(stats[n], stats["swap_total"])
             ELSE percent[n] ]

\* a registry read that keeps every listed type
read_fstypes_nodev(filesystems) ==
    [k \in DOMAIN filesystems.lines |-> filesystems.lines[k].fstype]

\* the types of /proc/filesystems that are neither nodev nor excluded
read_fstypes(filesystems) ==
    LET kept == SelectSeq(filesystems.lines,
                          LAMBDA l : ~l.nodev /\ l.fstype \notin {"squashfs", "nullfs", "zfs",
                                                                   "wslfs", "drvfs"})
    IN  [k \in DOMAIN kept |-> kept[k].fstype]

\* fs::path(mountpoint).filename()
filename(mountpoint) == IF mountpoint = "/" THEN ""
                        ELSE IF mountpoint = "/mnt" THEN "mnt" ELSE mountpoint

\* the stat file of a device: its own, or the whole disk's, where the
\* partition's nested one is preferred
stat_path(dev, sys) ==
    IF ("/sys/block/" \o dev.name \o "/stat") \in sys
    THEN "/sys/block/" \o dev.name \o "/stat"
    ELSE IF ("/sys/block/" \o dev.disk \o "/stat") \in sys
         THEN IF ("/sys/block/" \o dev.disk \o "/" \o dev.name \o "/stat") \in sys
              THEN "/sys/block/" \o dev.disk \o "/" \o dev.name \o "/stat"
              ELSE "/sys/block/" \o dev.disk \o "/stat"
         ELSE ""

\* DiskInfo{dev, name, fstype} with the defaults of the other members
DiskInfo(dev, name, fstype, stat) ==
    [ dev |-> dev, name |-> name, fstype |-> fstype, stat |-> stat,
      total |-> 0, used |-> 0, free |-> 0, used_percent |-> 0, free_percent |-> 0,
      old_io |-> <<0, 0, 0>>, io_read |-> 0, io_write |-> 0, io_activity |-> 0 ]

\* the record of a mountpoint seen for the first time
new_disk(line, sys) ==
    DiskInfo(line.dev,
             IF filename(line.mountpoint) = ""
             THEN (IF line.mountpoint = "/" THEN "root" ELSE line.mountpoint)
             ELSE filename(line.mountpoint),
             line.fstype, stat_path(DevOf(line.mountpoint), sys))

\* the loop over the lines of the mount table, from line k on
RECURSIVE mount_loop(_, _, _, _, _, _, _)
mount_loop(lines, k, found, disks, fstypes, ignore, sys) ==
    IF k > Len(lines) THEN [found |-> found, disks |-> disks]
    ELSE LET l == lines[k] IN
         IF contains(ignore, l.mountpoint) \/ contains(found, l.mountpoint)
         THEN mount_loop(lines, k + 1, found, disks, fstypes, ignore, sys)
         ELSE IF contains(fstab, l.mountpoint) \/ contains(fstypes, l.fstype)
              THEN mount_loop(lines, k + 1, Append(found, l.mountpoint),
                              IF l.mountpoint \in DOMAIN disks THEN disks
                              ELSE (l.mountpoint :> new_disk(l, sys)) @@ disks,
                              fstypes, ignore, sys)
              ELSE mount_loop(lines, k + 1, found, disks, fstypes, ignore, sys)

\* a loop that erases nothing
erase_nothing(disks, found) == disks

\* the erase loop: only the records whose mountpoint is in found stay
erase_missing(disks, found) ==
    [m \in {d \in DOMAIN disks : contains(found, d)} |-> disks[m]]

\* the erase loop of the header build after a new ignore
erase_ignored(disks, ignore) ==
    [m \in {d \in DOMAIN disks : ~contains(ignore, d)} |-> disks[m]]

\* what statvfs64 and fs::exists say about a record's mountpoint
probe_of(probe, mountpoint) ==
    IF mountpoint \in DOMAIN probe THEN probe[mountpoint] ELSE NoEntry

\* a - b in int for a >= 0: a difference above INT_MAX comes out modulo 2^32
int_sub(a, b) ==
    IF b < a - IntMax THEN (a - (b - IntMin)) + IntMin ELSE a - b

\* the capacity fields of a record after a successful statvfs64; a used
\* amount that wrapped, like a zero total, gives a percentage no int holds
with_capacity(disk, vfs, ub) ==
    LET total == vfs.f_blocks * vfs.f_frsize
        free == vfs.f_bavail * vfs.f_frsize
        used == total - free
        used_percent == IF used < 0 THEN ub ELSE percent_of(used, total, ub)
    IN  [disk EXCEPT !.total = total, !.free = free, !.used = used,
                     !.used_percent = used_percent,
                     !.free_percent = int_sub(100, used_percent)]

\* the capacity loop over the records, in iteration order, from position k on
RECURSIVE probe_loop(_, _, _, _, _, _, _)
probe_loop(order, k, disks, ignore, probed, probe, ub) ==
    IF k > Len(order)
    THEN [disks |-> disks, ignore_list |-> ignore, probed |-> probed]
    ELSE LET m == order[k]
             p == probe_of(probe, m)
         IN  IF m \notin DOMAIN disks \/ ~p.exists \/ contains(ignore, m)
             THEN probe_loop(order, k + 1, disks, ignore, probed, probe, ub)
             ELSE IF ~p.ok
                  THEN probe_loop(order, k + 1, disks, Append(ignore, m),
                                  probed \cup {m}, probe, ub)
                  ELSE probe_loop(order, k + 1,
                                  [disks EXCEPT ![m] = with_capacity(disks[m], p, ub)],
                                  ignore, probed \cup {m}, probe, ub)

\* the swap pseudo-record with this tick's swap figures
with_swap(disks, stats, percent) ==
    LET base == IF "swap" \in DOMAIN disks THEN disks["swap"]
                ELSE DiskInfo("", "swap", "swap", "")
        swap == [base EXCEPT !.total = stats["swap_total"], !.used = stats["swap_used"],
                             !.free = stats["swap_free"],
                             !.used_percent = percent["swap_used"],
                             !.free_percent = percent["swap_free"]]
    IN  ("swap" :> swap) @@ disks

\* mem.disks_order
disks_order_of(disks, swap_on, found) ==
    (IF "/" \in DOMAIN disks THEN <<"/">> ELSE <<>>)
        \o (IF swap_on THEN <<"swap">> ELSE <<>>)
        \o SelectSeq(found, LAMBDA name : name \notin {"/", "swap"})

\* the rate of busy ticks without the clamp
io_activity_unclamped(delta, elapsed, ub) ==
    IF elapsed = 0 THEN ub ELSE round_div(delta, elapsed * 10)

\* (long) round((double) (io_ticks - old) / elapsed / 10) clamped to 0..100:
\* the difference is unsigned, so a lower counter gives a value near 2^64,
\* far above 100 for any elapsed time of a second or more; elapsed 0 divides
\* by zero and the cast of the result is undefined
io_activity_of(delta, elapsed, ub) ==
    IF elapsed = 0 THEN clamp(ub, 0, 100)
    ELSE IF delta < 0 THEN 100
         ELSE clamp(round_div(delta, elapsed * 10), 0, 100)

\* max((uint64_t) 0, (sectors - old) * 512) stored in a long long: the
\* unsigned product read back as signed is the signed product
io_bytes_of(sectors, old) == (sectors - old) * 512

\* a record after its stat file has been read
with_io(disk, io, elapsed, ub) ==
    [disk EXCEPT !.io_read = io_bytes_of(io.sectors_read, disk.old_io[1]),
                 !.io_write = io_bytes_of(io.sectors_write, disk.old_io[2]),
                 !.io_activity = io_activity_of(io.io_ticks - disk.old_io[3], elapsed, ub),
                 !.old_io = <<io.sectors_read, io.sectors_write, io.io_ticks>>]

\* the records whose stat file is read this tick
io_readable(disks, sys) == {m \in DOMAIN disks : disks[m].stat /= "" /\ disks[m].stat \in sys}

\* the I/O loop over the records
io_loop(disks, sys, io, elapsed, ub) ==
    [m \in DOMAIN disks |->
        IF m \in io_readable(disks, sys) THEN with_io(disks[m], io, elapsed, ub)
        ELSE disks[m]]

\* StorageUnit of a record; the header build passes used where free belongs
StorageUnit(b, d) ==
    [ total |-> d.total, used |-> d.used, free |-> IF b = "header" THEN d.used ELSE d.free,
      used_percent |-> d.used_percent, free_percent |-> d.free_percent,
      handle |-> d.name, fs_type |-> d.fstype, io_read |-> d.io_read,
      io_write |-> d.io_write, io_activity |-> d.io_activity, path |-> d.dev ]

\* the snapshot's disk list, in the iteration order of the records
disk_list(b, disks, order) ==
    LET keys == SelectSeq(order, LAMBDA m : m \in DOMAIN disks)
    IN  [k \in DOMAIN keys |-> StorageUnit(b, disks[keys[k]])]

RamUnit(bytes, percent) == [bytes |-> bytes, percent |-> percent]

\* mem::Data
MemData(b, total, mem, order) ==
    [ total_ram_amount |-> total,
      available_ram_amount |-> RamUnit(mem.stats["available"], mem.percent["available"]),
      cached_ram_amount |-> RamUnit(mem.stats["cached"], mem.percent["cached"]),
      free_ram_amount |-> RamUnit(mem.stats["free"], mem.percent["free"]),
      used_ram_amount |-> RamUnit(mem.stats["used"], mem.percent["used"]),
      disks |-> disk_list(b, mem.disks, order) ]

NoMemData == [ total_ram_amount |-> 0, available_ram_amount |-> RamUnit(0, 0),
               cached_ram_amount |-> RamUnit(0, 0), free_ram_amount |-> RamUnit(0, 0),
               used_ram_amount |-> RamUnit(0, 0), disks |-> <<>> ]

\* the disk section of collect(): filesystems, mount table, capacity, order
\* and I/O; err names the source that could not be read
disk_section(b, mem, swap_on, found_before, uptime_before, ignore, env) ==
    LET same == [ err |-> "", disks |-> mem.disks, disks_order |-> mem.disks_order,
                  last_found |-> found_before, ignore_list |-> ignore,
                  old_uptime |-> uptime_before, read_mounts |-> FALSE,
                  probed |-> {}, io_read |-> {}, elapsed |-> -1 ]
    IN  IF ~env.filesystems.present
        THEN [same EXCEPT !.err = "Failed to read /proc/filesystems"]
        ELSE IF ~env.mounts.present
        THEN [same EXCEPT
                !.err = "Failed to get mounts from /etc/mtab and /proc/self/mounts"]
        ELSE
        LET fstypes == read_fstypes(env.filesystems)
            ml == mount_loop(env.mounts.lines, 1, <<>>, mem.disks, fstypes, ignore,
                             env.sys)
            found == IF swap_on THEN Append(ml.found, "swap") ELSE ml.found
            mounted == erase_missing(ml.disks, found)
            pl == probe_loop(env.order, 1, mounted, ignore, {}, env.probe, env.ub)
            kept == IF b = "header" /\ pl.ignore_list /= ignore
                    THEN erase_ignored(pl.disks, pl.ignore_list)
                    ELSE pl.disks
            ordered == disks_order_of(kept, swap_on, found)
            swapped == IF swap_on THEN with_swap(kept, mem.stats, mem.percent) ELSE kept
            elapsed == env.uptime - uptime_before
        IN  [ err |-> "",
              disks |-> io_loop(swapped, env.sys, env.io, elapsed, env.ub),
              disks_order |-> ordered, last_found |-> found,
              ignore_list |-> pl.ignore_list, old_uptime |-> env.uptime,
              read_mounts |-> TRUE, probed |-> pl.probed,
              io_read |-> io_readable(swapped, env.sys), elapsed |-> elapsed ]

\* ut::system_uptime: the first number of /proc/uptime
system_uptime(content) ==
    IF content.kind = "num" THEN [err |-> "", uptime |-> content.val]
    ELSE [err |-> "Failed get uptime from from /proc/uptime", uptime |-> 0]

NoMemTick == [ env |-> MemEnv(NoMemInfo, NoFile, NoFilesystems, NoMounts, <<>>,
                              IoFile(0, 0, 0), <<>>, {}, 0),
               read_mounts |-> FALSE, probed |-> {}, io_read |-> {}, elapsed |-> -1,
               disks_before |-> <<>>, ignore_before |-> <<>> ]

MemError(what) == [status |-> "error", what |-> what, data |-> NoMemData]

\* everything one call of mem::DataCollector::collect() leaves behind
mem_collect_result(b, total, mem, swap_on, found_before, uptime_before, ignore, env) ==
    LET same == [ current_mem |-> mem, has_swap |-> swap_on, last_found |-> found_before,
                  old_uptime |-> uptime_before, ignore_list |-> ignore,
                  tick |-> [ env |-> env, read_mounts |-> FALSE, probed |-> {},
                             io_read |-> {}, elapsed |-> -1, disks_before |-> mem.disks,
                             ignore_before |-> ignore ],
                  ret |-> MemError("") ]
        ram == get_total_ram_amount(env.meminfo)
    IN  IF ram.err /= "" THEN [same EXCEPT !.ret = MemError(ram.err)]
        ELSE
        LET stats == read_meminfo(mem.stats, env.meminfo, ram.totalMem)
            percent == mem_percent(mem.percent, stats, ram.totalMem)
            swap_now == stats["swap_total"] > 0
            mem1 == [mem EXCEPT !.stats = stats, !.percent = percent]
            up == system_uptime(env.uptime)
        IN  IF up.err /= ""
            THEN [same EXCEPT !.current_mem = mem1, !.has_swap = swap_now,
                              !.ret = MemError(up.err)]
            ELSE
            LET ds == disk_section(b, mem1, swap_now, found_before, uptime_before, ignore,
                                   [env EXCEPT !.uptime = up.uptime])
                mem2 == [mem1 EXCEPT !.disks = ds.disks, !.disks_order = ds.disks_order]
            IN  [ current_mem |-> mem2, has_swap |-> swap_now,
                  last_found |-> ds.last_found, old_uptime |-> ds.old_uptime,
                  ignore_list |-> ds.ignore_list,
                  tick |-> [ env |-> env, read_mounts |-> ds.read_mounts,
                             probed |-> ds.probed, io_read |-> ds.io_read,
                             elapsed |-> ds.elapsed, disks_before |-> mem.disks,
                             ignore_before |-> ignore ],
                  ret |-> IF ds.err /= "" /\ b = "library" THEN MemError(ds.err)
                          ELSE [ status |-> "ok", what |-> ds.err,
                                 data |-> MemData(b, total, mem2, env.order) ] ]

\* mem::DataCollector::collect()
mem_collect(env) ==
    \E o \in { mem_collect_result(build, total_ram_amount, current_mem, has_swap,
                                  last_found, old_uptime, ignore_list, env) } :
        /\ current_mem' = o.current_mem
        /\ has_swap' = o.has_swap
        /\ last_found' = o.last_found
        /\ old_uptime' = o.old_uptime
        /\ ignore_list' = o.ignore_list
        /\ mem_tick' = o.tick
        /\ mem_ret' = o.ret
        /\ UNCHANGED <<build, total_ram_amount>>

\* MemInfo{} of a new engine
NoMem == [ stats |-> [n \in StatNames |-> 0], percent |-> [n \in StatNames |-> 0],
           disks |-> <<>>, disks_order |-> <<>> ]

\* mem::DataCollector::DataCollector() on a machine with readable /proc
MemInit(builds, meminfo, uptime) ==
    /\ build \in builds
    /\ total_ram_amount = get_total_ram_amount(meminfo).totalMem
    /\ old_uptime = system_uptime(uptime).uptime
    /\ current_mem = NoMem
    /\ has_swap = FALSE
    /\ last_found = <<>>
    /\ ignore_list = <<>>
    /\ mem_tick = NoMemTick
    /\ mem_ret = [status |-> "none", what |-> "", data |-> NoMemData]

\* no constructor has been called
NoCall == [engine |-> "none", proc_ok |-> TRUE, status |-> "none", what |-> ""]

\* shared::init() has run and both constructors have returned
BothMade ==
    /\ is_init = TRUE
    /\ proc_path = "/proc"
    /\ cpu_made = TRUE
    /\ mem_made = TRUE
    /\ ctor_ret = NoCall
    /\ cpu_call = <<>>
    /\ mem_call = <<>>
    /\ parsed = <<>>
    /\ scan = <<>>

\* what a tick may find at a mountpoint: nothing mounted, a filesystem whose
\* capacity can be queried, one whose query fails
MountStates == {"unmounted", "mounted", "failing"}

MountpointSet == {Mountpoints[k] : k \in DOMAIN Mountpoints}

\* the tick inputs for one choice of what is at each mountpoint
MountEnv(meminfo, uptime, at, io, order, ub) ==
    MemEnv(meminfo, Num(uptime), FilesystemsFile,
           MountTable({m \in MountpointSet : at[m] /= "unmounted"}),
           [m \in MountpointSet |->
               IF at[m] = "mounted" THEN Vfs(1000, 250, 4)
               ELSE IF at[m] = "failing" THEN ProbeFails ELSE NoEntry],
           io, order, SysBlock, ub)

\* the root filesystem stays mounted; the other mountpoint comes, goes and fails
MountChoices ==
    { [m \in MountpointSet |-> IF m = "/" THEN "mounted" ELSE s] : s \in MountStates }

\* ticks with every source readable, at the previous uptime or later; the
\* outcome of an undefined cast is open only where a tick divides by zero
ReadableEnvs(since) ==
    { MountEnv(meminfo, c[1], at, io, DiskOrder, c[2]) :
        meminfo \in {MemInfoNoSwap, MemInfoSwap},
        c \in ({since} \X CastOutcomes)
               \cup ({u \in {since + 1} : u <= MaxUptime} \X {IntMax}),
        at \in MountChoices, io \in IoReads }

\* ticks on which one of the sources cannot be read
UnreadableEnvs(since) ==
    LET env == MountEnv(MemInfoNoSwap, since, [m \in MountpointSet |-> "mounted"],
                        IoFile(8, 4, 20), DiskOrder, IntMax)
    IN  { [env EXCEPT !.meminfo = NoMemInfo], [env EXCEPT !.filesystems = NoFilesystems],
          [env EXCEPT !.mounts = NoMounts] }

\* /proc/meminfo without MemAvailable, with MemAvailable, with half a percent
\* of the swap in use, with MemAvailable above MemTotal and SwapFree above
\* SwapTotal, with MemFree above MemTotal
MemInfoReads ==
    { MemInfoFile(8000, 2000, -1, 1000, 0, 0),
      MemInfoFile(8000, 2000, 3000, 1000, 400, 100),
      MemInfoFile(8000, 2000, 3000, 1000, 400, 398),
      MemInfoFile(8000, 2000, 9000, 1000, 400, 500),
      MemInfoFile(8000, 9000, 9500, 1000, 0, 0) }

\* statvfs64 of the root filesystem: three quarters used, or no blocks at all
VfsReads == { Vfs(1000, 250, 4), Vfs(0, 0, 4) }

\* ticks over the counters of memory, swap and the root filesystem
CounterEnvs(since) ==
    { MemEnv(meminfo, Num(uptime), FilesystemsFile, MountTable({"/"}),
             [m \in {"/"} |-> vfs], IoFile(8, 4, 20), DiskOrder, SysBlock, ub) :
        meminfo \in MemInfoReads,
        uptime \in {u \in {since, since + 1} : u <= MaxUptime},
        vfs \in VfsReads, ub \in CastOutcomes }

MemCollectCounters ==
    /\ \E env \in CounterEnvs(old_uptime) : mem_collect(env)
    /\ UNCHANGED <<cpu_vars, proc_vars>>

MemCollect ==
    /\ \E env \in ReadableEnvs(old_uptime) \cup UnreadableEnvs(old_uptime) :
          mem_collect(env)
    /\ UNCHANGED <<cpu_vars, proc_vars>>

MemSpecInit ==
    /\ CpuInit({1}, {PackageSensor}, {ScalingCurFreq})
    /\ MemInit({"library", "header"}, MemInfoNoSwap, Num(1))
    /\ BothMade

MemNext == MemCollect

\* the memory engine, in either build, over mounts that come, go and fail
MemSpec == MemSpecInit /\ [][MemNext]_vars

----------------------------------------------------------------------------
(* Mount tables with virtual filesystems and repeated mountpoints *)

\* /proc/filesystems of a machine with a second disk filesystem
FilesystemsBtrfs ==
    [ present |-> TRUE,
      lines |-> << [nodev |-> TRUE, fstype |-> "tmpfs"], [nodev |-> FALSE, fstype |-> "ext4"],
                   [nodev |-> FALSE, fstype |-> "btrfs"],
                   [nodev |-> FALSE, fstype |-> "squashfs"] >> ]

MaxLines == 2

\* mount tables of up to MaxLines distinct lines: "/" on ext4, "/mnt" on a
\* virtual, a disk or an excluded filesystem
MountTables ==
    LET lines == { MountLine("/", "ext4"), MountLine("/mnt", "tmpfs"),
                   MountLine("/mnt", "ext4"), MountLine("/mnt", "btrfs"),
                   MountLine("/mnt", "squashfs") }
    IN  UNION { { t \in [1..n -> lines] : \A i, j \in 1..n : i /= j => t[i] /= t[j] } :
                n \in 1..MaxLines }

\* ticks over these tables, taken within the second of the tick before;
\* statvfs64 of "/mnt" succeeds or fails
TableEnvs(since) ==
    { MemEnv(MemInfoNoSwap, Num(since), FilesystemsBtrfs, [present |-> TRUE, lines |-> t],
             [m \in MountpointSet |-> IF m = "/" \/ mnt_ok THEN Vfs(1000, 250, 4)
                                      ELSE ProbeFails],
             IoFile(8, 4, 20), DiskOrder, SysBlock, ub) :
        ub \in CastOutcomes, t \in MountTables, mnt_ok \in BOOLEAN }

MemCollectTables ==
    /\ \E env \in TableEnvs(old_uptime) : mem_collect(env)
    /\ UNCHANGED <<cpu_vars, proc_vars>>

\* the memory engine, in either build, over such mount tables
TablesSpec == MemSpecInit /\ [][MemCollectTables]_vars

----------------------------------------------------------------------------

CountersNext == MemCollectCounters

\* the memory engine, in either build, over the counters it reads
CountersSpec == MemSpecInit /\ [][CountersNext]_vars

\* the engines of a machine with a coretemp chip and a frequency path
Init ==
    /\ CpuInit(1..MaxCores, {CoretempSensors}, {ScalingCurFreq})
    /\ MemInit({"library"}, MemInfoNoSwap, Num(1))
    /\ BothMade

Next == CpuCollect

Spec == Init /\ [][Next]_vars

DegradedInit ==
    /\ CpuInit(1..MaxCores, SensorSetups, {ScalingCurFreq, ""})
    /\ MemInit({"library"}, MemInfoNoSwap, Num(1))
    /\ BothMade

DegradedNext == CpuCollectDegraded

\* the cpu engine on machines with and without sensors and frequency paths
DegradedSpec == DegradedInit /\ [][DegradedNext]_vars

\* a machine whose fast frequency path exists when the engine is built
FrequencyInit ==
    /\ CpuInit(1..MaxCores, {PackageSensor}, {ScalingCurFreq})
    /\ MemInit({"library"}, MemInfoNoSwap, Num(1))
    /\ BothMade

\* the cpu engine over frequency sources that come and go
FrequencySpec == FrequencyInit /\ [][DegradedNext]_vars

----------------------------------------------------------------------------
(* One process: the bootstrap, the constructors, and the engines it holds *)

\* a bootstrap that marks itself initialised before it looks for /proc
shared_init_marked(procOK) ==
    IF ~is_init /\ ~procOK
        THEN [ err |-> "Proc filesystem not found or no permission to read from it!",
               is_init |-> TRUE, proc_path |-> "", freq_path |-> freq_path ]
    ELSE [ err |-> "", is_init |-> TRUE,
           proc_path |-> IF is_init THEN proc_path ELSE "/proc",
           freq_path |-> IF is_init THEN freq_path ELSE ScalingCurFreq ]

\* shared::init(): what it leaves in the shared variables, and what it throws
shared_init(procOK) ==
    IF is_init
        THEN [ err |-> "", is_init |-> TRUE, proc_path |-> proc_path,
               freq_path |-> freq_path ]
    ELSE IF ~procOK
        THEN [ err |-> "Proc filesystem not found or no permission to read from it!",
               is_init |-> FALSE, proc_path |-> "", freq_path |-> freq_path ]
    ELSE [ err |-> "", is_init |-> TRUE, proc_path |-> "/proc",
           freq_path |-> ScalingCurFreq ]

\* no cpu::DataCollector has been constructed: the statics hold their
\* zero-initialised values
CpuNone ==
    /\ core_count = 0
    /\ CpuOld = [n \in OldNames |-> 0]
    /\ core_old_totals = <<>>
    /\ core_old_idles = <<>>
    /\ found_sensors = <<>>
    /\ cpu_sensor = ""
    /\ core_sensors = <<>>
    /\ core_mapping = <<>>
    /\ got_sensors = FALSE
    /\ current_cpu = [ cpu_percent |-> [n \in PercentNames |-> 0], core_percent |-> <<>>,
                       critical_temperature |-> 0, load_avg |-> <<0, 0, 0>> ]
    /\ failed = 0
    /\ freq_path = ""
    /\ cpu_tick = NoTick
    /\ cpu_ret = [status |-> "none", what |-> "", data |-> NoData]

\* no mem::DataCollector has been constructed
MemNone ==
    /\ build \in {"library", "header"}
    /\ total_ram_amount = 0
    /\ old_uptime = 0
    /\ current_mem = NoMem
    /\ has_swap = FALSE
    /\ last_found = <<>>
    /\ ignore_list = <<>>
    /\ mem_tick = NoMemTick
    /\ mem_ret = [status |-> "none", what |-> "", data |-> NoMemData]

\* cpu::DataCollector::DataCollector(): /proc may be there or not, the
\* frequency file may exist or not
CpuConstruct ==
    /\ ~cpu_made
    /\ \E procOK \in BOOLEAN, freqOK \in BOOLEAN :
        \E i \in {shared_init(procOK)} :
          /\ is_init' = i.is_init
          /\ proc_path' = i.proc_path
          /\ IF i.err /= ""
             THEN /\ ctor_ret' = [engine |-> "cpu", proc_ok |-> procOK, status |-> "error", what |-> i.err]
                  /\ UNCHANGED <<cpu_vars, cpu_made>>
             ELSE /\ ctor_ret' = [engine |-> "cpu", proc_ok |-> procOK, status |-> "ok", what |-> ""]
                  /\ cpu_made' = TRUE
                  /\ freq_path' = IF freqOK THEN i.freq_path ELSE ""
                  /\ core_count' = 1
                  /\ core_old_totals' = core_vector(1)
                  /\ core_old_idles' = core_vector(1)
                  /\ current_cpu' = [current_cpu EXCEPT !.core_percent = core_vector(1)]
                  /\ found_sensors' = PackageSensor.found
                  /\ cpu_sensor' = PackageSensor.primary
                  /\ core_sensors' = PackageSensor.cores
                  /\ got_sensors' = TRUE
                  /\ UNCHANGED <<CpuOld, core_mapping, failed, cpu_tick, cpu_ret>>
    /\ UNCHANGED <<mem_vars, mem_made, call_vars, parsed, scan>>

\* mem::DataCollector::DataCollector(): without /proc neither meminfo nor
\* uptime can be read
MemConstruct ==
    /\ ~mem_made
    /\ \E procOK \in BOOLEAN :
        \E i \in {shared_init(procOK)} :
          LET ram == get_total_ram_amount(IF procOK THEN MemInfoNoSwap ELSE NoMemInfo)
              up  == system_uptime(IF procOK THEN Num(1) ELSE NoFile)
              err == IF i.err /= "" THEN i.err
                     ELSE IF ram.err /= "" THEN ram.err ELSE up.err
          IN  /\ is_init' = i.is_init
              /\ proc_path' = i.proc_path
              /\ freq_path' = i.freq_path
              /\ IF err /= ""
                 THEN /\ ctor_ret' = [engine |-> "mem", proc_ok |-> procOK, status |-> "error", what |-> err]
                      /\ UNCHANGED <<mem_vars, mem_made>>
                 ELSE /\ ctor_ret' = [engine |-> "mem", proc_ok |-> procOK, status |-> "ok", what |-> ""]
                      /\ mem_made' = TRUE
                      /\ total_ram_amount' = ram.totalMem
                      /\ old_uptime' = up.uptime
                      /\ UNCHANGED <<build, current_mem, has_swap, last_found,
                                     ignore_list, mem_tick, mem_ret>>
    /\ UNCHANGED <<core_count, CpuOld, core_old_totals, core_old_idles, current_cpu,
                   cpu_sensor, found_sensors, core_sensors, core_mapping, got_sensors,
                   failed, cpu_tick, cpu_ret, cpu_made, call_vars, parsed, scan>>

\* what a tick of the cpu engine reads in this process: well-formed tables,
\* a frequency file and a cpuinfo entry that may each be missing
ProcCpuInputs ==
    { <<stat, fast, slow>> :
        stat \in GoodTables(1), fast \in FastReads, slow \in SlowReads }

\* collect() of the cpu engine the caller holds
ProcCpuCollect ==
    /\ cpu_made
    /\ \E c \in ProcCpuInputs :
          collect(c[1], IntMax, [present |-> TRUE, vals |-> <<52, 58, 59>>],
                  Num(45000), c[2], c[3])
    /\ UNCHANGED <<mem_vars, proc_vars>>

\* what a tick of the memory engine reads in this process: the second
\* mountpoint is mounted, or its capacity probe fails
ProcEnvs(since) ==
    { MountEnv(MemInfoNoSwap, since, at, IoFile(8, 4, 20), DiskOrder, IntMax) :
        at \in {a \in MountChoices : a["/mnt"] /= "unmounted"} }

\* collect() of the memory engine the caller holds
ProcMemCollect ==
    /\ mem_made
    /\ \E env \in ProcEnvs(old_uptime) : mem_collect(env)
    /\ UNCHANGED <<cpu_vars, proc_vars>>

ProcessInit ==
    /\ CpuNone
    /\ MemNone
    /\ is_init = FALSE
    /\ proc_path = ""
    /\ cpu_made = FALSE
    /\ mem_made = FALSE
    /\ ctor_ret = NoCall
    /\ cpu_call = <<>>
    /\ mem_call = <<>>
    /\ parsed = <<>>
    /\ scan = <<>>

ProcessNext ==
    \/ CpuConstruct
    \/ MemConstruct
    \/ ProcCpuCollect
    \/ ProcMemCollect

\* a process that constructs its engines and samples with them
ProcessSpec == ProcessInit /\ [][ProcessNext]_vars

----------------------------------------------------------------------------
(* The two engines of one process, called from two threads *)

\* what a cpu tick reads while the other engine runs: well-formed tables and
\* a frequency file that may be missing
CallCpuInputs ==
    { <<stat, fast, Num(2400000)>> : stat \in GoodTables(1), fast \in FastReads }

boot_vars == <<is_init, proc_path, cpu_made, mem_made, ctor_ret, parsed, scan>>

\* what the cpu call that reads c leaves behind and returns, from this state
CpuOutcome(c) ==
    collect_result(c[1], IntMax, [present |-> TRUE, vals |-> <<52, 58, 59>>],
                   Num(45000), c[2], c[3])

\* what the memory call that reads env leaves behind and returns, from this state
MemOutcome(env) ==
    mem_collect_result(build, total_ram_amount, current_mem, has_swap, last_found,
                       old_uptime, ignore_list, env)

\* a thread calls collect() of the cpu engine; alone is what the call would
\* leave behind and return if nothing else ran before it returns
CpuEnter ==
    /\ cpu_call = <<>>
    /\ \E c \in CallCpuInputs : cpu_call' = [reads |-> c, alone |-> CpuOutcome(c)]
    /\ UNCHANGED <<cpu_vars, mem_vars, boot_vars, mem_call>>

\* the call returns: everything collect() writes is written by now
CpuLeave ==
    /\ cpu_call /= <<>>
    /\ collect(cpu_call.reads[1], IntMax, [present |-> TRUE, vals |-> <<52, 58, 59>>],
               Num(45000), cpu_call.reads[2], cpu_call.reads[3])
    /\ cpu_call' = <<>>
    /\ UNCHANGED <<mem_vars, boot_vars, mem_call>>

\* a thread calls collect() of the memory engine
MemEnter ==
    /\ mem_call = <<>>
    /\ \E env \in ProcEnvs(old_uptime) :
          mem_call' = [reads |-> env, alone |-> MemOutcome(env)]
    /\ UNCHANGED <<cpu_vars, mem_vars, boot_vars, cpu_call>>

\* a memory collect() that clears shared::freq_path on its way out
MemLeaveClears ==
    /\ mem_call /= <<>>
    /\ mem_collect(mem_call.reads)
    /\ mem_call' = <<>>
    /\ freq_path' = ""
    /\ UNCHANGED <<core_count, CpuOld, core_old_totals, core_old_idles, current_cpu,
                   cpu_sensor, found_sensors, core_sensors, core_mapping, got_sensors,
                   failed, cpu_tick, cpu_ret, boot_vars, cpu_call>>

\* the call returns: everything collect() writes is written by now
MemLeave ==
    /\ mem_call /= <<>>
    /\ mem_collect(mem_call.reads)
    /\ mem_call' = <<>>
    /\ UNCHANGED <<cpu_vars, boot_vars, cpu_call>>

ThreadsInit ==
    /\ CpuInit({1}, {PackageSensor}, {ScalingCurFreq})
    /\ MemInit({"library", "header"}, MemInfoNoSwap, Num(1))
    /\ BothMade

ThreadsNext == CpuEnter \/ CpuLeave \/ MemEnter \/ MemLeave

\* both engines constructed, their collect() calls overlapping in any way
ThreadsSpec == ThreadsInit /\ [][ThreadsNext]_vars

----------------------------------------------------------------------------
(* Two instances of each engine in one process *)

\* collect() of a second cpu::DataCollector of the process, fed well-formed
\* tables: its members are its own, and get_cpu_frequency() writes the
\* function-local static failed and shared::freq_path
OtherCpuCollect ==
    /\ cpu_made
    /\ \E c \in CallCpuInputs :
        \E f \in {get_cpu_frequency(c[2], c[3])} :
          /\ failed' = f.failed
          /\ freq_path' = f.freq_path
    /\ UNCHANGED <<core_count, CpuOld, core_old_totals, core_old_idles, current_cpu,
                   cpu_sensor, found_sensors, core_sensors, core_mapping, got_sensors,
                   cpu_tick, cpu_ret, mem_vars, proc_vars>>

\* the first collect() of a second mem::DataCollector of the process: its
\* members are its own, and the capacity loop writes the function-local
\* static ignore_list
OtherMemCollect ==
    /\ mem_made
    /\ \E env \in ProcEnvs(old_uptime) :
          ignore_list' = mem_collect_result(build, total_ram_amount, NoMem, FALSE, <<>>,
                                            old_uptime, ignore_list, env).ignore_list
    /\ UNCHANGED <<build, total_ram_amount, current_mem, has_swap, last_found,
                   old_uptime, mem_tick, mem_ret, cpu_vars, proc_vars>>

InstancesNext ==
    \/ CpuEnter
    \/ CpuLeave
    \/ MemEnter
    \/ MemLeave
    \/ OtherCpuCollect
    \/ OtherMemCollect

\* the engines the caller samples with, next to second instances of both
InstancesSpec == ThreadsInit /\ [][InstancesNext]_vars

----------------------------------------------------------------------------
(* The counters of a /proc/stat line in full width *)

\* a 64-bit value hi * 2^31 + lo with 0 <= lo < 2^31; hi < 0 for a negative one
Wide(hi, lo) == [hi |-> hi, lo |-> lo]

\* long long + long long
wide_add(a, b) ==
    IF a.lo > IntMax - b.lo
        THEN Wide(a.hi + b.hi + 1, a.lo - (IntMax - b.lo) - 1)
        ELSE Wide(a.hi + b.hi, a.lo + b.lo)

\* long long - long long
wide_sub(a, b) ==
    IF a.lo >= b.lo
        THEN Wide(a.hi - b.hi, a.lo - b.lo)
        ELSE Wide(a.hi - b.hi - 1, (IntMax - b.lo) + 1 + a.lo)

\* int -> long long
from_int(i) == IF i >= 0 THEN Wide(0, i) ELSE Wide(-1, i - IntMin)

\* long long -> int: the low 32 bits, read as a signed value
to_int(w) == IF w.hi % 2 = 0 THEN w.lo ELSE w.lo + IntMin

\* max(0ll, w)
wide_max0(w) == IF w.hi < 0 THEN Wide(0, 0) ELSE w

RECURSIVE wide_sum(_, _)
\* total_sum += val over the fields from the k-th on
wide_sum(times, k) ==
    IF k > Len(times) THEN Wide(0, 0) ELSE wide_add(times[k], wide_sum(times, k + 1))

RECURSIVE wide_accumulate(_, _, _)
\* std::accumulate(times.begin() + 8, times.end(), 0): init is an int, and
\* init = init + *it converts the long long sum back to int
wide_accumulate(times, k, init) ==
    IF k > Len(times) THEN init
    ELSE wide_accumulate(times, k + 1, to_int(wide_add(from_int(init), times[k])))

\* const long long totals
wide_totals_of(times) ==
    wide_max0(wide_sub(wide_sum(times, 1),
                       from_int(IF Len(times) > 8 THEN wide_accumulate(times, 9, 0)
                                ELSE 0)))

\* const long long idles
wide_idles_of(times) ==
    wide_max0(wide_add(times[4], IF Len(times) > 4 THEN times[5] ELSE Wide(0, 0)))

\* lines of 10 fields: small user, system, idle and iowait counters, guest
\* and guest_nice counters below, at and above 2^31
WideLines ==
    { << Wide(0, user), Wide(0, 0), Wide(0, 50), Wide(0, idle), Wide(0, iowait),
         Wide(0, 0), Wide(0, 0), Wide(0, 0), guest, guest_nice >> :
        user \in {100, 200}, idle \in {850, 900}, iowait \in {0, 10},
        guest \in {Wide(0, 0), Wide(0, 5), Wide(0, IntMax), Wide(1, 0), Wide(2, 7)},
        guest_nice \in {Wide(0, 0), Wide(0, 1), Wide(1, 0)} }

\* the loop body of collect() on one line, up to totals and idles
ParseLine ==
    /\ \E times \in WideLines :
          parsed' = [ times |-> times, totals |-> wide_totals_of(times),
                      idles |-> wide_idles_of(times) ]
    /\ UNCHANGED <<cpu_vars, mem_vars, is_init, proc_path, cpu_made, mem_made,
                   ctor_ret, call_vars, scan>>

\* the counter arithmetic of collect() over lines with large counters
WideSpec == ThreadsInit /\ [][ParseLine]_vars

----------------------------------------------------------------------------
(* A two-core engine whose cores go offline and come back *)

\* well-formed tables for two known cores: each core line is there or not
OfflineTables ==
    { [agg |-> Line(t), cores |-> c] :
        t \in AggTimes,
        c \in { f \in [0..2 -> {NoLine} \cup {Line(x) : x \in CoreTimes}] :
                    f[2] = NoLine } }

CpuCollectOffline ==
    /\ \E stat \in OfflineTables, ub \in CastOutcomes :
          collect(stat, ub, [present |-> TRUE, vals |-> <<52, 58, 59>>],
                  Num(45000), Num(1500000), Num(2400000))
    /\ UNCHANGED <<mem_vars, proc_vars>>

OfflineInit ==
    /\ CpuInit({2}, {PackageSensor}, {ScalingCurFreq})
    /\ MemInit({"library"}, MemInfoNoSwap, Num(1))
    /\ BothMade

OfflineSpec == OfflineInit /\ [][CpuCollectOffline]_vars

----------------------------------------------------------------------------
(* Sensor discovery: get_sensors() over what /sys holds at construction *)

UpperCase == "ABCDEFGHIJKLMNOPQRSTUVWXYZ"

LowerCase == "abcdefghijklmnopqrstuvwxyz"

\* the characters of sensor names, in the order of their codes
CodeOrder == " /0123456789" \o UpperCase \o "_" \o LowerCase

char_at(str, i) == SubSeq(str, i, i)

\* ::tolower
tolower(c) ==
    IF \E i \in 1..Len(UpperCase) : char_at(UpperCase, i) = c
        THEN char_at(LowerCase, CHOOSE i \in 1..Len(UpperCase) : char_at(UpperCase, i) = c)
        ELSE c

RECURSIVE to_lower(_)
to_lower(str) ==
    IF str = "" THEN ""
    ELSE tolower(char_at(str, 1)) \o to_lower(SubSeq(str, 2, Len(str)))

starts_with(str, prefix) ==
    Len(str) >= Len(prefix) /\ SubSeq(str, 1, Len(prefix)) = prefix

\* ut::str::contains
str_contains(str, find_val) ==
    \E i \in 1..(Len(str) - Len(find_val) + 1) :
        SubSeq(str, i, i + Len(find_val) - 1) = find_val

code_of(c) == CHOOSE i \in 1..Len(CodeOrder) : char_at(CodeOrder, i) = c

\* operator< of std::string
RECURSIVE str_less(_, _)
str_less(a, b) ==
    IF b = "" THEN FALSE
    ELSE IF a = "" THEN TRUE
    ELSE IF char_at(a, 1) = char_at(b, 1)
        THEN str_less(SubSeq(a, 2, Len(a)), SubSeq(b, 2, Len(b)))
    ELSE code_of(char_at(a, 1)) < code_of(char_at(b, 1))

size_less(a, b) == Len(a) < Len(b)

\* rng::sort(seq, rng::less{}): equal names are interchangeable
sort(seq) ==
    LET rank(k) == 1 + Cardinality({ j \in DOMAIN seq :
                         \/ str_less(seq[j], seq[k])
                         \/ (seq[j] = seq[k] /\ j < k) })
    IN  [p \in DOMAIN seq |-> seq[CHOOSE k \in DOMAIN seq : rank(k) = p]]

\* rng::stable_sort(seq, size_less): names of one size keep their order
stable_sort(seq) ==
    LET rank(k) == 1 + Cardinality({ j \in DOMAIN seq :
                         \/ size_less(seq[j], seq[k])
                         \/ (~size_less(seq[k], seq[j]) /\ j < k) })
    IN  [p \in DOMAIN seq |-> seq[CHOOSE k \in DOMAIN seq : rank(k) = p]]

\* stol(ut::file::read(path, fallback)) / 1000
stol_1000(content, fallback) ==
    LET c == file_read(content, fallback)
    IN  [threw |-> c.kind = "text", val |-> trunc_div(c.val, 1000)]

\* the files of one temperature sensor of a hwmon directory
HwmonFile(pname, label, input, maxfile, crit) ==
    [pname |-> pname, label |-> label, input |-> input, max |-> maxfile, crit |-> crit]

\* a thermal zone: its type, its temp file and its trip points
Zone(type, temp, trips) == [type |-> type, temp |-> temp, trips |-> trips]

Trip(type, temp) == [type |-> type, temp |-> temp]

Sensor(temp, high, crit) == [temp |-> temp, high |-> high, crit |-> crit]

\* found_sensors[name] = sensor
put(found, name, sensor) ==
    [n \in DOMAIN found \cup {name} |-> IF n = name THEN sensor ELSE found[n]]

\* the scan of the search paths, file by file in directory order; a stol
\* that throws ends the whole discovery (catch (...))
RECURSIVE hwmon_loop(_, _, _)
hwmon_loop(files, k, acc) ==
    IF k > Len(files) THEN acc
    ELSE
    LET f    == files[k]
        name == f.pname \o "/" \o f.label
        temp == stol_1000(f.input, Num(0))
        high == stol_1000(f.max, Num(80000))
        crit == stol_1000(f.crit, Num(95000))
        acc1 == [acc EXCEPT !.found = put(acc.found, name,
                                          Sensor(temp.val, high.val, crit.val))]
    IN  IF temp.threw \/ high.threw \/ crit.threw THEN [acc EXCEPT !.threw = TRUE]
        ELSE IF ~acc.got_cpu /\ (starts_with(f.label, "Package id")
                                   \/ starts_with(f.label, "Tdie"))
            THEN hwmon_loop(files, k + 1,
                            [acc1 EXCEPT !.got_cpu = TRUE, !.cpu_sensor = name])
        ELSE IF starts_with(f.label, "Core") \/ starts_with(f.label, "Tccd")
            THEN hwmon_loop(files, k + 1,
                            [acc1 EXCEPT !.core_sensors =
                                IF contains(acc.core_sensors, name) THEN @
                                ELSE Append(@, name)])
        ELSE hwmon_loop(files, k + 1, acc1)

\* what an int64_t that was declared without a value can hold
UninitOutcomes == {0, 70}

\* the trip points of one zone; val is high or crit as the loop found them
RECURSIVE trip_loop(_, _, _)
trip_loop(trips, ii, val) ==
    IF ii > Len(trips) THEN val
    ELSE IF trips[ii].type \notin {"high", "critical"} THEN trip_loop(trips, ii + 1, val)
    ELSE LET t == stol_1000(trips[ii].temp, Num(0))
         IN  IF t.threw THEN [val EXCEPT !.threw = TRUE]
             ELSE trip_loop(trips, ii + 1,
                            IF trips[ii].type = "high" THEN [val EXCEPT !.high = t.val]
                            ELSE [val EXCEPT !.crit = t.val])

RECURSIVE to_string(_)
to_string(i) ==
    IF i < 10 THEN char_at("0123456789", i + 1)
    ELSE to_string(i \div 10) \o char_at("0123456789", (i % 10) + 1)

\* the scan of /sys/class/thermal; zone i is zones[i + 1], uninit[i + 1] what
\* its high and crit hold before any trip point is read
RECURSIVE thermal_loop(_, _, _, _)
thermal_loop(zones, uninit, i, acc) ==
    IF i >= Len(zones) THEN acc
    ELSE
    LET z    == zones[i + 1]
        name == "thermal" \o to_string(i) \o "/" \o z.type
        temp == stol_1000(z.temp, Num(0))
        val  == trip_loop(z.trips, 1, [high |-> uninit[i + 1][1],
                                       crit |-> uninit[i + 1][2], threw |-> FALSE])
        high == IF val.high < 1 THEN 80 ELSE val.high
        crit == IF val.crit < 1 THEN 95 ELSE val.crit
    IN  IF z.temp.kind = "none" THEN thermal_loop(zones, uninit, i + 1, acc)
        ELSE IF temp.threw \/ val.threw THEN [acc EXCEPT !.threw = TRUE]
        ELSE thermal_loop(zones, uninit, i + 1,
                          [acc EXCEPT !.found = put(acc.found, name,
                                                    Sensor(temp.val, high, crit))])

\* the loop over found_sensors that looks for a name with "cpu" or "k10temp";
\* iter is the order in which the unordered_map yields its keys
RECURSIVE by_name(_, _)
by_name(iter, k) ==
    IF k > Len(iter) THEN ""
    ELSE IF str_contains(to_lower(iter[k]), "cpu")
            \/ str_contains(to_lower(iter[k]), "k10temp") THEN iter[k]
    ELSE by_name(iter, k + 1)

\* the try block of get_sensors(): the hwmon scan, and the thermal zones
\* when it found no package sensor
discover(hwmon, zones, uninit) ==
    LET start   == [ found |-> <<>>, cpu_sensor |-> "", got_cpu |-> FALSE,
                     core_sensors |-> <<>>, threw |-> FALSE ]
        scanned == hwmon_loop(hwmon, 1, start)
    IN  IF ~scanned.threw /\ ~scanned.got_cpu
            THEN thermal_loop(zones, uninit, 0, scanned)
            ELSE scanned

\* get_sensors() of build b
get_sensors(b, hwmon, zones, uninit, iter) ==
    LET fell    == discover(hwmon, zones, uninit)
        order   == SelectSeq(iter, LAMBDA n : n \in DOMAIN fell.found)
        named   == by_name(order, 1)
        guess   == fell.cpu_sensor = "" /\ DOMAIN fell.found /= {}
        only    == fell.core_sensors = <<>>
    IN  [ found |-> fell.found,
          cpu_sensor |-> IF ~guess THEN fell.cpu_sensor
                         ELSE IF named /= "" THEN named ELSE order[1],
          core_sensors |-> IF b = "collect" /\ ~only
                              THEN stable_sort(sort(fell.core_sensors))
                              ELSE fell.core_sensors,
          cpu_temp_only |-> b = "collect" /\ only,
          warned |-> guess /\ named = "" /\ b \in {"header", "collect"},
          got_sensors |-> DOMAIN fell.found /= {} ]

\* sensor files of a machine
PackageFile == HwmonFile("coretemp", "Package id 0", Num(45000), Num(80000), Num(100000))

CoreFile(n) == HwmonFile("coretemp", "Core " \o to_string(n), Num(41000), Num(80000),
                         Num(100000))

TctlFile == HwmonFile("k10temp", "Tctl", Num(50000), NoFile, NoFile)

TdieFile == HwmonFile("k10temp", "Tdie", Num(48000), NoFile, Num(90000))

NvmeFile == HwmonFile("nvme", "Composite", Num(35000), Num(70000), Num(85000))

\* a sensor whose input file holds no number
GarbledFile == HwmonFile("nvme", "Sensor 1", Text, NoFile, NoFile)

MaxScan == 2

\* the sensor files in the order the directory iterators yield them: up to
\* MaxScan distinct files, and two machines with several cores (one with
\* two chips that carry the same names)
HwmonTrees ==
    LET files == {PackageFile, CoreFile(10), CoreFile(2), TctlFile, TdieFile, NvmeFile,
                  GarbledFile}
    IN  UNION { { s \in [1..n -> files] : \A i, j \in 1..n : i /= j => s[i] /= s[j] } :
                n \in 0..MaxScan }
        \cup { <<CoreFile(10), PackageFile, CoreFile(2), CoreFile(0)>>,
               <<CoreFile(2), CoreFile(10), CoreFile(2)>> }

\* /sys/class/thermal: no zone; a zone without trip points; a zone with a
\* passive, a high and a critical trip point; a zone whose critical trip
\* point reads 0 before a zone without trip points
ThermalTrees ==
    { <<>>,
      <<Zone("acpitz", Num(30000), <<>>)>>,
      <<Zone("x86_pkg_temp", Num(50000),
             <<Trip("passive", Num(60000)), Trip("high", Num(85000)),
               Trip("critical", Num(105000))>>)>>,
      <<Zone("cpu_thermal", Num(52000), <<Trip("critical", Num(0))>>),
        Zone("acpitz", Num(30000), <<>>)>> }

\* the orders in which an unordered_map can yield the keys in names
Orders(names) ==
    { s \in [1..Cardinality(names) -> names] :
        \A i, j \in 1..Cardinality(names) : i /= j => s[i] /= s[j] }

\* the call of get_sensors() in the constructor
GetSensors ==
    /\ ~cpu_made
    /\ \E hwmon \in HwmonTrees, zones \in ThermalTrees,
          uninit \in UninitOutcomes \X UninitOutcomes :
        \E iter \in Orders(DOMAIN discover(hwmon, zones, <<uninit, uninit>>).found) :
          \E o \in {get_sensors(build, hwmon, zones, <<uninit, uninit>>, iter)} :
            /\ found_sensors' = o.found
            /\ cpu_sensor' = o.cpu_sensor
            /\ core_sensors' = o.core_sensors
            /\ got_sensors' = o.got_sensors
            /\ scan' = [ hwmon |-> hwmon, zones |-> zones, uninit |-> uninit,
                         iter |-> iter, warned |-> o.warned,
                         cpu_temp_only |-> o.cpu_temp_only ]
    /\ cpu_made' = TRUE
    /\ UNCHANGED <<core_count, CpuOld, core_old_totals, core_old_idles, current_cpu,
                   core_mapping, failed, freq_path, cpu_tick, cpu_ret>>
    /\ UNCHANGED <<mem_vars, is_init, proc_path, mem_made, ctor_ret, call_vars, parsed>>

\* the constructor of the cpu engine, of any build, at its call of
\* get_sensors()
SensorsInit ==
    /\ CpuInit({1}, {NoSensors}, {ScalingCurFreq})
    /\ MemInit({"library", "header", "collect"}, MemInfoNoSwap, Num(1))
    /\ is_init = TRUE
    /\ proc_path = "/proc"
    /\ cpu_made = FALSE
    /\ mem_made = TRUE
    /\ ctor_ret = NoCall
    /\ cpu_call = <<>>
    /\ mem_call = <<>>
    /\ parsed = <<>>
    /\ scan = <<>>

SensorsSpec == SensorsInit /\ [][GetSensors]_vars

----------------------------------------------------------------------------
(* Properties of the cpu engine *)

\* a tick has been taken
Ticked == cpu_ret.status /= "none"

Snapshot == cpu_ret.data

\* the table has an aggregate line and every line in it has 4 fields or more
WellFormed(stat) ==
    /\ stat.agg.present
    /\ Len(stat.agg.times) >= 4
    /\ \A n \in DOMAIN stat.cores :
          stat.cores[n].present => Len(stat.cores[n].times) >= 4

\* the table has a line for a core index at or beyond known
HasCoreFrom(stat, known) ==
    \E n \in DOMAIN stat.cores : n >= known /\ stat.cores[n].present

\* C1: every percentage of every returned snapshot (the total, the 10 named
\* fields, each core) is an integer in 0..100, over grown, unchanged and
\* lower counters alike.
C1_PercentagesInRange ==
    cpu_ret.status = "ok" =>
        /\ \A n \in PercentNames : Snapshot.cpu_usage[n] \in 0..100
        /\ \A k \in DOMAIN Snapshot.core_load : Snapshot.core_load[k] \in 0..100

\* a snapshot from a tick whose aggregate total went down and whose core
\* percentage was divided by zero and clamped from above
C1_Witness ==
    /\ cpu_ret.status = "ok"
    /\ cpu_tick.d_totals < 0
    /\ \E k \in DOMAIN Snapshot.core_load :
          cpu_tick.core_calc_totals[k] = 0 /\ Snapshot.core_load[k] = 100

\* C2: the divisor of every percentage computed in a tick is at least 1, for
\* the aggregate line and for every core line.
C2_DivisorAtLeastOne ==
    /\ cpu_tick.calc_totals /= -1 => cpu_tick.calc_totals >= 1
    /\ \A k \in DOMAIN cpu_tick.core_calc_totals :
          cpu_tick.core_calc_totals[k] /= -1 => cpu_tick.core_calc_totals[k] >= 1

\* C3: the aggregate total% of every snapshot is
\* clamp(round((dTotals - dIdle) * 100 / dTotals), 0, 100) with
\* dTotals = max(1, totals - previous totals) and
\* dIdle = idle_combined - previous idle_combined.
C3_TotalPercentFormula ==
    cpu_ret.status = "ok" =>
        Snapshot.cpu_usage["total"] =
            clamp(round_div((max(1, cpu_tick.d_totals) - cpu_tick.d_idles) * 100,
                            max(1, cpu_tick.d_totals)), 0, 100)

\* C4: whenever idle_combined is what it was at the previous tick and totals
\* has grown, total% is 100 (user 100 -> 200 with idle 850 kept).
C4_BusyIntervalIsFull ==
    (cpu_ret.status = "ok" /\ cpu_tick.d_idles = 0 /\ cpu_tick.d_totals > 0) =>
        Snapshot.cpu_usage["total"] = 100

\* C5: after every tick the per-core usage list and the previous-total and
\* previous-idle vectors have core_count elements, and so has the usage list
\* of a returned snapshot for the core_count it reports.
C5_PerCoreLengths ==
    /\ Len(current_cpu.core_percent) = core_count
    /\ Len(core_old_totals) = core_count
    /\ Len(core_old_idles) = core_count
    /\ cpu_ret.status = "ok" => Len(Snapshot.core_load) = Snapshot.core_count

\* a snapshot from a table with fewer core lines than the engine has cores
C5_Witness ==
    /\ cpu_ret.status = "ok"
    /\ ~HasCoreFrom(cpu_tick.stat, 0)
    /\ Len(Snapshot.core_load) = core_count

\* C6: a well-formed table with a core index at or beyond core_count is
\* collected without error, and the snapshot reports a larger core count with
\* per-core state to match.
C6_NewCoresAccepted ==
    (Ticked /\ WellFormed(cpu_tick.stat) /\ HasCoreFrom(cpu_tick.stat, core_count)
        /\ cpu_sensor /= "" /\ cpu_tick.sens.kind /= "text") =>
        /\ cpu_ret.status = "ok"
        /\ Snapshot.core_count > core_count
        /\ Len(Snapshot.core_load) = Snapshot.core_count

\* C7: a tick whose table has no aggregate line or a line with fewer than 4
\* fields reports an error and leaves the previous-sample counters as they
\* were.
C7_ErrorKeepsCounters ==
    [][ (cpu_tick' /= NoTick /\ ~WellFormed(cpu_tick'.stat)) =>
            /\ cpu_ret'.status = "error"
            /\ CpuOld' = CpuOld
            /\ core_old_totals' = core_old_totals
            /\ core_old_idles' = core_old_idles ]_vars

\* C8: an engine without any sensor, or whose primary sensor file cannot be
\* read on a tick, still returns a snapshot from every tick over a
\* well-formed table, with 0 or the last temperature in it.
C8_SensorFailureTolerated ==
    (Ticked /\ (cpu_sensor = "" \/ cpu_tick.sens.kind = "none")) =>
        /\ cpu_ret.status = "ok"
        /\ Snapshot.cpu_temp \in {0, 40, 45}

\* the tick's table has no line for core k (counted from 1)
CoreMissing(tick, k) ==
    /\ (k - 1) \in DOMAIN tick.stat.cores
    /\ ~tick.stat.cores[k - 1].present

\* C20: on a tick whose table lacks the line of a known core, because the
\* table ends early or skips the index, a returned snapshot reports usage 0
\* for that core, the core count and the lengths of the per-core vectors stay
\* as they were, and the core's previous total and idle counters are kept.
C20_MissingCoreReadsZero ==
    [][ /\ core_count' = core_count
        /\ Len(current_cpu'.core_percent) >= Len(current_cpu.core_percent)
        /\ Len(core_old_totals') >= Len(core_old_totals)
        /\ Len(core_old_idles') >= Len(core_old_idles)
        /\ \A k \in 1..core_count :
              CoreMissing(cpu_tick', k) =>
                  /\ cpu_ret'.status = "ok" => cpu_ret'.data.core_load[k] = 0
                  /\ core_old_totals'[k] = core_old_totals[k]
                  /\ core_old_idles'[k] = core_old_idles[k] ]_vars

\* a snapshot from a table that skips core 0 and has core 1, taken when core
\* 0 had counters and a usage above 0 from an earlier tick
C20_Witness ==
    /\ cpu_ret.status = "ok"
    /\ CoreMissing(cpu_tick, 1)
    /\ ~CoreMissing(cpu_tick, 2)
    /\ core_old_totals[1] > 0
    /\ Snapshot.core_load = <<0, Snapshot.core_load[2]>>
    /\ Snapshot.core_count = 2

\* the frequency a tick reports when "cpu MHz" reads 2400.000
SlowFrequency == [value10 |-> 24, units |-> "GHz"]

\* C24: once the fast frequency path has been cleared it stays cleared, and
\* no later tick reads it: what a tick reports is what it would report with
\* the fast file absent, also when the file is readable again.
C24_FastPathStaysDisabled ==
    [][ freq_path = "" =>
          /\ freq_path' = ""
          /\ cpu_ret'.status = "ok" =>
                cpu_ret'.data.cpu_frequency =
                    get_cpu_frequency(NoFile, cpu_tick'.slow).freq ]_vars

\* the path was cleared by failed reads, and the tick after found the fast
\* file readable and reported the fallback's frequency
C24_Witness ==
    /\ freq_path = ""
    /\ failed = 2
    /\ cpu_tick.fast = Num(1500000)
    /\ cpu_tick.slow = Num(2400000)
    /\ cpu_ret.status = "ok"
    /\ cpu_ret.data.cpu_frequency = SlowFrequency

\* C25: whatever failed before, a tick that has to fall back to
\* /proc/cpuinfo (fast path cleared or unreadable) and finds a valid
\* "cpu MHz" there reports that frequency, with its unit.
C25_FallbackAlwaysReported ==
    ( /\ Ticked
      /\ cpu_ret.status = "ok"
      /\ cpu_tick.slow = Num(2400000)
      /\ (freq_path = "" \/ cpu_tick.fast = NoFile) ) =>
        cpu_ret.data.cpu_frequency = SlowFrequency

\* C26: the failure count is a streak: a tick that reads the fast path
\* successfully resets it, so a failure that follows a successful read never
\* clears the path.
C26_FailureCountIsAStreak ==
    [][ /\ ( /\ freq_path /= ""
             /\ cpu_tick'.fast = Num(1500000)
             /\ cpu_ret'.status = "ok" ) => failed' = 0
        /\ ( /\ Ticked
             /\ freq_path /= ""
             /\ cpu_tick.fast = Num(1500000)
             /\ cpu_ret.status = "ok" ) => freq_path' /= "" ]_vars

\* get_sensors() has run
Scanned == scan /= <<>>

\* name and label of what the scan met, hwmon files first, then thermal zones
Met ==
    [k \in 1..Len(scan.hwmon) |->
        [ name |-> scan.hwmon[k].pname \o "/" \o scan.hwmon[k].label,
          label |-> scan.hwmon[k].label ]]
    \o [i \in 1..Len(scan.zones) |->
        [ name |-> "thermal" \o to_string(i - 1) \o "/" \o scan.zones[i].type,
          label |-> scan.zones[i].type ]]

\* positions of the discovered sensors with a package label
PackageLabelled ==
    { k \in DOMAIN Met : /\ Met[k].name \in DOMAIN found_sensors
                         /\ \/ starts_with(Met[k].label, "Package id")
                            \/ starts_with(Met[k].label, "Tdie") }

\* discovered sensors whose lower-cased name points at the cpu
CpuNamed ==
    { n \in DOMAIN found_sensors : \/ str_contains(to_lower(n), "cpu")
                                   \/ str_contains(to_lower(n), "k10temp") }

\* C27: the primary sensor is the first discovered sensor with a "Package id"
\* or "Tdie" label; failing that a discovered sensor whose lower-cased name
\* contains "cpu" or "k10temp"; failing that some discovered sensor, and then
\* a notification is raised.  It is a discovered sensor whenever there is one.
C27_PrimarySensorPriority ==
    Scanned =>
        /\ PackageLabelled /= {} =>
              cpu_sensor = Met[CHOOSE k \in PackageLabelled :
                                  \A j \in PackageLabelled : k <= j].name
        /\ (PackageLabelled = {} /\ CpuNamed /= {}) => cpu_sensor \in CpuNamed
        /\ (PackageLabelled = {} /\ CpuNamed = {} /\ DOMAIN found_sensors /= {}) =>
              (cpu_sensor \in DOMAIN found_sensors /\ scan.warned)
        /\ DOMAIN found_sensors /= {} => cpu_sensor \in DOMAIN found_sensors

\* the trip points of type in zone z that read a positive value
PositiveTrips(z, type) ==
    { ii \in DOMAIN z.trips : /\ z.trips[ii].type = type
                              /\ z.trips[ii].temp.kind = "num"
                              /\ z.trips[ii].temp.val > 0 }

\* the threshold of zone z for trip points of type, fallback when none is set
ThresholdOf(z, type, fallback) ==
    IF PositiveTrips(z, type) = {} THEN fallback
    ELSE trunc_div(z.trips[CHOOSE ii \in PositiveTrips(z, type) : TRUE].temp.val, 1000)

\* C28: a thermal zone recorded by the fallback stores the value of its
\* "high" and of its "critical" trip point in whole degrees where that trip
\* point exists with a positive value, and 80 and 95 where it does not.
C28_ThermalZoneThresholds ==
    Scanned =>
        \A i \in 1..Len(scan.zones) :
            LET name == "thermal" \o to_string(i - 1) \o "/" \o scan.zones[i].type
            IN  name \in DOMAIN found_sensors =>
                  /\ found_sensors[name].high = ThresholdOf(scan.zones[i], "high", 80)
                  /\ found_sensors[name].crit = ThresholdOf(scan.zones[i], "critical", 95)

\* C29: after discovery no name is twice in the per-core sensor list, and
\* the list is ordered by length of name, names of one length in
\* lexicographic order.
C29_CoreSensorsSortedAndUnique ==
    Scanned =>
        \A i, j \in DOMAIN core_sensors :
            i < j =>
                /\ core_sensors[i] /= core_sensors[j]
                /\ \/ Len(core_sensors[i]) < Len(core_sensors[j])
                   \/ /\ Len(core_sensors[i]) = Len(core_sensors[j])
                      /\ str_less(core_sensors[i], core_sensors[j])

\* C30: a tick re-reads the file of the primary sensor and of every per-core
\* sensor, so that after it each of them holds the temperature its file held
\* on that tick (every sensor file holds cpu_tick.sens during the tick).
C30_EverySensorRefreshed ==
    (Ticked /\ cpu_ret.status = "ok" /\ cpu_tick.sens.kind = "num") =>
        \A n \in {cpu_sensor} \cup {core_sensors[k] : k \in DOMAIN core_sensors} :
            n \in DOMAIN found_sensors =>
                found_sensors[n].temp = trunc_div(cpu_tick.sens.val, 1000)

----------------------------------------------------------------------------
(* Properties of the memory engine *)

\* the display name a record of mountpoint m gets
HandleOf(m) == IF m = "/" THEN "root" ELSE filename(m)

\* the snapshot has an entry for mountpoint m
InSnapshot(ret, m) ==
    \E k \in DOMAIN ret.data.disks : ret.data.disks[k].handle = HandleOf(m)

\* the mount table of the tick lists mountpoint m
InMountTable(tick, m) ==
    \E k \in DOMAIN tick.env.mounts.lines : tick.env.mounts.lines[k].mountpoint = m

\* C9: on a tick that reads the mount table, a tracked mountpoint the table
\* no longer lists loses its record and is not in the tick's snapshot; a
\* mountpoint that gets a record on a tick gets one whose previous sector and
\* busy-tick counters are zero, so the tick's rates are taken against zero.
C9_UnmountDropsRemountStartsAtZero ==
    [][ mem_tick'.read_mounts =>
          \A m \in MountpointSet :
            /\ (m \in DOMAIN current_mem.disks /\ ~InMountTable(mem_tick', m)) =>
                  /\ m \notin DOMAIN current_mem'.disks
                  /\ mem_ret'.status = "ok"
                  /\ ~InSnapshot(mem_ret', m)
            /\ (m \notin DOMAIN current_mem.disks /\ m \in mem_tick'.io_read) =>
                  /\ current_mem'.disks[m].io_read = mem_tick'.env.io.sectors_read * 512
                  /\ current_mem'.disks[m].io_write = mem_tick'.env.io.sectors_write * 512
                  /\ current_mem'.disks[m].io_activity =
                        io_activity_of(mem_tick'.env.io.io_ticks, mem_tick'.elapsed,
                                       mem_tick'.env.ub) ]_vars

\* a tick has dropped the record of a mountpoint that was tracked, had
\* counters from an earlier tick and is no longer in the mount table
C9_Witness ==
    /\ mem_tick.read_mounts
    /\ mem_ret.status = "ok"
    /\ \E m \in DOMAIN mem_tick.disks_before :
          /\ m \in MountpointSet
          /\ mem_tick.disks_before[m].old_io /= <<0, 0, 0>>
          /\ ~InMountTable(mem_tick, m)
          /\ ~contains(ignore_list, m)
          /\ m \notin DOMAIN current_mem.disks

\* C10: a mountpoint whose capacity probe fails on a tick is in the ignore
\* set and has no record and no snapshot entry from that tick on, and a
\* mountpoint in the ignore set is not probed.
C10_FailedProbeDropsRecord ==
    /\ \A m \in mem_tick.probed :
          ~probe_of(mem_tick.env.probe, m).ok =>
              /\ contains(ignore_list, m)
              /\ m \notin DOMAIN current_mem.disks
              /\ ~InSnapshot(mem_ret, m)
    /\ \A k \in DOMAIN mem_tick.ignore_before :
          /\ mem_tick.ignore_before[k] \notin mem_tick.probed
          /\ mem_tick.read_mounts =>
                /\ mem_tick.ignore_before[k] \notin DOMAIN current_mem.disks
                /\ ~InSnapshot(mem_ret, mem_tick.ignore_before[k])

\* the records whose stat file the tick has read
IoRead == mem_tick.io_read \cap DOMAIN current_mem.disks

\* C11: after every memory tick the io_activity of every tracked mount, and
\* of every entry of a returned snapshot, is in 0..100, also when the busy-tick
\* counter read is lower than the one stored at the previous tick.
C11_IoActivityInRange ==
    /\ \A m \in DOMAIN current_mem.disks : current_mem.disks[m].io_activity \in 0..100
    /\ mem_ret.status = "ok" =>
          \A k \in DOMAIN mem_ret.data.disks : mem_ret.data.disks[k].io_activity \in 0..100

\* a tick after a second or more has read a busy-tick counter lower than the
\* stored one and reports the mount in its snapshot
C11_Witness ==
    /\ mem_ret.status = "ok"
    /\ mem_tick.elapsed > 0
    /\ \E m \in IoRead :
          /\ m \in DOMAIN mem_tick.disks_before
          /\ mem_tick.env.io.io_ticks < mem_tick.disks_before[m].old_io[3]
          /\ current_mem.disks[m].io_activity = 100
          /\ InSnapshot(mem_ret, m)

\* the tick has read a memory counter file of these values, in units of 1000 kB
ReadMemInfo(total, free, avail, cached) ==
    /\ mem_ret.status = "ok"
    /\ mem_tick.env.meminfo.MemTotal = total
    /\ mem_tick.env.meminfo.MemFree = free
    /\ mem_tick.env.meminfo.MemAvailable = avail
    /\ mem_tick.env.meminfo.Cached = cached

\* C12: a tick whose memory counter file has no available entry reports
\* available = free + cached; with total 8,000,000 kB, free 2,000,000 kB and
\* cached 1,000,000 kB it reports available 3,000,000 kB, used 5,000,000 kB
\* and used% 63.
C12_AvailableDerived ==
    /\ (mem_ret.status = "ok" /\ mem_tick.env.meminfo.MemAvailable = -1) =>
          mem_ret.data.available_ram_amount.bytes =
              mem_ret.data.free_ram_amount.bytes + mem_ret.data.cached_ram_amount.bytes
    /\ ReadMemInfo(8000, 2000, -1, 1000) =>
          /\ mem_ret.data.available_ram_amount.bytes = shl10(3000)
          /\ mem_ret.data.used_ram_amount.bytes = shl10(5000)
          /\ mem_ret.data.used_ram_amount.percent = 63

\* a tick later than the first reads the file of the example
C12_Witness ==
    /\ ReadMemInfo(8000, 2000, -1, 1000)
    /\ mem_tick.disks_before /= <<>>
    /\ mem_ret.data.used_ram_amount.percent = 63

\* C13: every percentage of every memory snapshot - used, available, cached
\* and free RAM, and used_percent and free_percent of each disk entry, the
\* swap entry included - is in 0..100.
C13_MemPercentagesInRange ==
    mem_ret.status = "ok" =>
        /\ mem_ret.data.used_ram_amount.percent \in 0..100
        /\ mem_ret.data.available_ram_amount.percent \in 0..100
        /\ mem_ret.data.cached_ram_amount.percent \in 0..100
        /\ mem_ret.data.free_ram_amount.percent \in 0..100
        /\ \A k \in DOMAIN mem_ret.data.disks :
              /\ mem_ret.data.disks[k].used_percent \in 0..100
              /\ mem_ret.data.disks[k].free_percent \in 0..100

\* C14: whenever a per-core sensor was discovered, the core-to-sensor map
\* gives every core index 0..core_count-1 an index into the per-core sensor
\* list.
C14_EveryCoreMapped ==
    core_sensors /= <<>> =>
        \A i \in 0..(core_count - 1) :
            /\ i \in DOMAIN core_mapping
            /\ core_mapping[i] \in 0..(Len(core_sensors) - 1)

\* the tick could not read /proc/meminfo, /proc/filesystems or the mount table
SourceUnreadable(tick) ==
    \/ ~tick.env.meminfo.present
    \/ ~tick.env.filesystems.present
    \/ ~tick.env.mounts.present

\* C15: a tick that cannot read the memory counter file, the filesystem-type
\* registry or the mount table reports an error instead of a snapshot, and
\* leaves the mount records with their previous counters and the previous
\* uptime as they were.
C15_UnreadableSourceIsError ==
    [][ SourceUnreadable(mem_tick') =>
          /\ mem_ret'.status = "error"
          /\ current_mem'.disks = current_mem.disks
          /\ old_uptime' = old_uptime ]_vars

\* the record of mountpoint m is created by the tick: it was not tracked
\* before and its stat file is read
Created(before, tick, m) == m \notin DOMAIN before.disks /\ m \in tick.io_read

\* C21: on the tick that creates a record, at first sight or at a remount,
\* io_read, io_write and io_activity are no larger than what the device did
\* between the previous tick and this one.
C21_NoStaleRateOnNewRecord ==
    [][ \A m \in MountpointSet :
          ( /\ mem_tick.read_mounts
            /\ Created(current_mem, mem_tick', m)
            /\ mem_tick'.elapsed > 0
            /\ mem_tick'.env.io.sectors_read >= mem_tick.env.io.sectors_read
            /\ mem_tick'.env.io.sectors_write >= mem_tick.env.io.sectors_write
            /\ mem_tick'.env.io.io_ticks >= mem_tick.env.io.io_ticks ) =>
              /\ current_mem'.disks[m].io_read <=
                    (mem_tick'.env.io.sectors_read - mem_tick.env.io.sectors_read) * 512
              /\ current_mem'.disks[m].io_write <=
                    (mem_tick'.env.io.sectors_write - mem_tick.env.io.sectors_write) * 512
              /\ current_mem'.disks[m].io_activity <=
                    io_activity_of(mem_tick'.env.io.io_ticks - mem_tick.env.io.io_ticks,
                                   mem_tick'.elapsed, mem_tick'.env.ub) ]_vars

\* the sector and tick counters the record of m held before the tick
OldIoOf(before, m) ==
    IF m \in DOMAIN before.disks THEN before.disks[m].old_io ELSE <<0, 0, 0>>

\* C22: for every record whose stat file a tick reads, io_read and io_write
\* are 512 times the sector delta since the previous tick, a lower sector
\* counter counting as a delta of 0, and so are never negative.
C22_IoBytesClampedAtZero ==
    [][ \A m \in mem_tick'.io_read \cap DOMAIN current_mem'.disks :
          /\ current_mem'.disks[m].io_read =
                512 * max(0, mem_tick'.env.io.sectors_read - OldIoOf(current_mem, m)[1])
          /\ current_mem'.disks[m].io_write =
                512 * max(0, mem_tick'.env.io.sectors_write - OldIoOf(current_mem, m)[2])
          /\ current_mem'.disks[m].io_read >= 0
          /\ current_mem'.disks[m].io_write >= 0 ]_vars

\* C23: on every tick that reads a stat file the elapsed time that divides
\* the tick delta is strictly positive, also when the uptime reads as it did
\* at the previous tick or at construction, and the previous-uptime reference
\* advances by exactly that one value.
C23_ElapsedStrictlyPositive ==
    [][ mem_tick'.io_read /= {} =>
          /\ mem_tick'.elapsed > 0
          /\ old_uptime' = old_uptime + mem_tick'.elapsed ]_vars

\* C31: the used RAM of a snapshot is total - available when available is
\* not above total and total - free when it is, and is in 0..total in every
\* case.
C31_UsedRamWithinTotal ==
    mem_ret.status = "ok" =>
        LET total == mem_ret.data.total_ram_amount
            avail == mem_ret.data.available_ram_amount.bytes
            free  == mem_ret.data.free_ram_amount.bytes
            used  == mem_ret.data.used_ram_amount.bytes
        IN  /\ avail <= total => used = total - avail
            /\ avail > total => used = total - free
            /\ used >= 0
            /\ used <= total

\* the filesystem types a tick allows: those of the registry that are not
\* marked nodev, less the excluded ones
AllowedTypes(tick) ==
    { tick.env.filesystems.lines[k].fstype : k \in
        { j \in DOMAIN tick.env.filesystems.lines : ~tick.env.filesystems.lines[j].nodev } }
    \ {"squashfs", "nullfs", "zfs", "wslfs", "drvfs"}

\* the lines of the tick's mount table that make mountpoint m eligible
EligibleLines(tick, m) ==
    { k \in DOMAIN tick.env.mounts.lines :
        /\ tick.env.mounts.lines[k].mountpoint = m
        /\ \/ tick.env.mounts.lines[k].fstype \in AllowedTypes(tick)
           \/ contains(fstab, m) }

\* the first of them
FirstLine(tick, m) ==
    tick.env.mounts.lines[CHOOSE k \in EligibleLines(tick, m) :
                             \A j \in EligibleLines(tick, m) : k <= j]

\* the entries of the snapshot for mountpoint m
EntriesOf(ret, m) ==
    { k \in DOMAIN ret.data.disks : ret.data.disks[k].handle = HandleOf(m) }

SwapEntries(ret) == { k \in DOMAIN ret.data.disks : ret.data.disks[k].handle = "swap" }

\* C33: a snapshot has a "swap" entry exactly when the tick read a swap total
\* above 0, and the entry's total, used and free are the tick's swap_total,
\* swap_total - swap_free and swap_free; the first tick that reads a swap
\* total of 0 has no such entry.
C33_SwapEntryFollowsSwapTotal ==
    mem_ret.status = "ok" =>
        /\ SwapEntries(mem_ret) /= {} <=> mem_tick.env.meminfo.SwapTotal > 0
        /\ \A k \in SwapEntries(mem_ret) :
              /\ mem_ret.data.disks[k].total = shl10(mem_tick.env.meminfo.SwapTotal)
              /\ mem_ret.data.disks[k].used =
                    shl10(mem_tick.env.meminfo.SwapTotal) - shl10(mem_tick.env.meminfo.SwapFree)
              /\ mem_ret.data.disks[k].free = shl10(mem_tick.env.meminfo.SwapFree)

----------------------------------------------------------------------------
(* Properties of the process *)

\* the engine the last constructor call was for is held by the caller
Made(engine) == IF engine = "cpu" THEN cpu_made ELSE mem_made

\* C16 as stated: a constructor called while /proc is missing or unreadable
\* fails with an error, leaves the caller without that engine, and leaves
\* the bootstrap unmarked.
C16_MissingRootFailsConstruction ==
    (ctor_ret.engine /= "none" /\ ~ctor_ret.proc_ok) =>
        /\ ctor_ret.status = "error"
        /\ ~Made(ctor_ret.engine)
        /\ ~is_init

\* C16, amended: a constructor called while /proc is missing or unreadable
\* and before any construction has marked the bootstrap initialised fails
\* with an error, gives the caller no engine, and leaves the bootstrap
\* unmarked, so that the next construction checks /proc again.
C16_MissingRootFailsFirstConstruction ==
    [][ (ctor_ret' /= ctor_ret /\ ~ctor_ret'.proc_ok /\ ~is_init) =>
          /\ ctor_ret'.status = "error"
          /\ cpu_made' = cpu_made
          /\ mem_made' = mem_made
          /\ ~is_init' ]_vars

\* a construction of the memory engine has failed on a missing /proc with
\* the bootstrap unmarked, and the caller holds no engine
C16_Witness ==
    /\ ctor_ret.engine = "mem"
    /\ ~ctor_ret.proc_ok
    /\ ctor_ret.status = "error"
    /\ ~is_init
    /\ ~cpu_made
    /\ ~mem_made

C18_InstancesIsolated ==
    /\ cpu_call /= <<>> => CpuOutcome(cpu_call.reads).ret = cpu_call.alone.ret
    /\ mem_call /= <<>> => MemOutcome(mem_call.reads).ret = mem_call.alone.ret

\* C19: for a line of 10 fields, totals is the sum of all fields less guest
\* and guest_nice, and idles is idle plus iowait, whatever the field values.
C19_TotalsAndIdle ==
    parsed /= <<>> =>
        /\ parsed.totals = wide_sub(wide_sub(wide_sum(parsed.times, 1), parsed.times[9]),
                                    parsed.times[10])
        /\ parsed.idles = wide_add(parsed.times[4], parsed.times[5])
\* C34: once the bootstrap has succeeded, no later init() call, engine
\* construction or tick changes the process-information root or the per-cpu
\* frequency path.
C34_SharedConstantsNeverChange ==
    [][ is_init => (proc_path' = proc_path /\ freq_path' = freq_path) ]_vars

\* C35: the load averages of a snapshot are what the tick read from the
\* load-average source: the three values of the file when it is readable, and
\* the initial zeros, never the values of an earlier tick, when it is not.
C35_LoadAveragesAreThisTicksRead ==
    (Ticked /\ cpu_ret.status = "ok") =>
        Snapshot.cpu_load_avg = cpu_tick.load.vals

\* C36: after every successful tick the stored previous aggregate totals,
\* idles and per-field counters are those of the aggregate line just read,
\* and the stored previous total and idle of every core with a line in the
\* table are those of its line.
C36_StoredCountersAreLastRead ==
    (Ticked /\ cpu_ret.status = "ok") =>
        LET agg == cpu_tick.stat.agg.times
        IN  /\ CpuOld["totals"] = totals_of(agg)
            /\ CpuOld["idles"] = idles_of(agg)
            /\ \A k \in 1..min(Len(agg), 10) : CpuOld[time_names[k]] = agg[k]
            /\ \A n \in DOMAIN cpu_tick.stat.cores :
                  cpu_tick.stat.cores[n].present =>
                      /\ n + 1 <= Len(core_old_totals)
                      /\ core_old_totals[n + 1] = totals_of(cpu_tick.stat.cores[n].times)
                      /\ core_old_idles[n + 1] = idles_of(cpu_tick.stat.cores[n].times)

\* a second tick whose aggregate line grew by 100 and whose core 0 line is
\* stored
C36_Witness ==
    /\ cpu_ret.status = "ok"
    /\ cpu_tick.d_totals = 100
    /\ cpu_tick.stat.agg.times[1] = 200
    /\ CpuOld["user"] = 200
    /\ CpuOld["totals"] = 1100
    /\ cpu_tick.stat.cores[0] = Line(<<30, 0, 0, 50>>)
    /\ core_old_totals[1] = 80
    /\ core_old_idles[1] = 50

\* u + f = 100, written so that no intermediate value leaves the 32-bit range
AddUpTo100(u, f) ==
    /\ u >= 0 => f = 100 - u
    /\ u < 0 => (f > 0 /\ u = 100 - f)

\* C37: in every memory snapshot the used and free percentages of every disk
\* entry, the swap entry included, add up to 100.
C37_DiskPercentagesAddUp ==
    mem_ret.status = "ok" =>
        \A k \in DOMAIN mem_ret.data.disks :
            AddUpTo100(mem_ret.data.disks[k].used_percent,
                       mem_ret.data.disks[k].free_percent)

\* the tracked records in the order of the claim: "/", then "swap", then the
\* other mountpoints in mount-table order
TrackedInOrder(disks) ==
    (IF "/" \in DOMAIN disks THEN <<"/">> ELSE <<>>)
        \o (IF "swap" \in DOMAIN disks THEN <<"swap">> ELSE <<>>)
        \o SelectSeq(Mountpoints, LAMBDA m : m \in DOMAIN disks /\ m /= "/")

\* C38: the disk list of every snapshot has one entry for each tracked
\* record, "/" first, then "swap", then the other mounts in mount-table
\* order.
C38_DiskListOrdered ==
    mem_ret.status = "ok" =>
        /\ Len(mem_ret.data.disks) = Len(TrackedInOrder(current_mem.disks))
        /\ \A k \in DOMAIN mem_ret.data.disks :
              mem_ret.data.disks[k].handle = HandleOf(TrackedInOrder(current_mem.disks)[k])

====
